---------------------------- MODULE Spec2Model ----------------------------
(***************************************************************************)
(* EnergyRush MCP database server (src/mcp_database_server.py).            *)
(*                                                                         *)
(* The server dispatches named tool calls to handlers that open a SQLite   *)
(* connection, run one or more statements and build a text report.  The    *)
(* model keeps the store (two tables), the wall clock the windowed         *)
(* queries read through datetime('now'), the number of open connections,   *)
(* the record of the last call and the requests that have arrived and are  *)
(* not yet served.  Report texts are records holding the                   *)
(* values the f-strings interpolate; the fixed decoration of the text is   *)
(* carried by the record's "msg" field.  Money is in integer cents.        *)
(* Timestamps are integer hours, a calendar date is hours \div 24.         *)
(***************************************************************************)
EXTENDS Integers, Sequences, FiniteSets, TLC

VARIABLES db, now, open_conns, last, pending

vars == <<db, now, open_conns, last, pending>>

----------------------------------------------------------------------------
(* Bounds of the model *)

\* The clock advances at most this many times
MaxTicks == 1
\* Leading / trailing whitespace characters put around an ad-hoc query
MaxPad == 1
\* Days with orders in the large store, and the orders on each of them
BigDays == 31
BigPerDay == 2
\* Requests that have arrived and are not yet served
MaxPending == 2

----------------------------------------------------------------------------
(* Python values.  Arguments arrive as a JSON mapping; a value is tagged   *)
(* with its Python type.  A str is a TLA+ string (s), a character sequence *)
(* (cs, for SQL text that the code inspects character by character) or the *)
(* ISO text YYYY-MM-DD of a day number (iso).                              *)

PyInt(i) == [t |-> "int", i |-> i]
PyStr(s) == [t |-> "str", s |-> s]
PyText(cs) == [t |-> "str", cs |-> cs]
PyDate(d) == [t |-> "str", iso |-> d]
PyNone == [t |-> "NoneType"]

\* bool(v): Python truthiness of an argument value
Truthy(v) ==
    CASE v.t = "int" -> v.i # 0
      [] v.t = "NoneType" -> FALSE
      [] v.t = "str" ->
            IF "s" \in DOMAIN v THEN v.s # ""
            ELSE IF "cs" \in DOMAIN v THEN v.cs # <<>>
            ELSE TRUE

----------------------------------------------------------------------------
(* Characters and str methods used by execute_custom_query *)

Whitespace == {" ", "\n", "\t"}

\* The upper-case form of each lower-case letter
UpperTable ==
    [a |-> "A", b |-> "B", c |-> "C", d |-> "D", e |-> "E", f |-> "F", g |-> "G",
     h |-> "H", i |-> "I", j |-> "J", k |-> "K", l |-> "L", m |-> "M", n |-> "N",
     o |-> "O", p |-> "P", q |-> "Q", r |-> "R", s |-> "S", t |-> "T", u |-> "U",
     v |-> "V", w |-> "W", x |-> "X", y |-> "Y", z |-> "Z"]

\* str.upper() on one character

\* str.upper()
Upper(cs) ==
    SubSeq([i \in 1..Len(cs) |->
               IF cs[i] \in DOMAIN UpperTable THEN UpperTable[cs[i]] ELSE cs[i]],
           1, Len(cs))

\* str.lstrip() and str.rstrip()
RECURSIVE LStrip(_)
LStrip(cs) ==
    IF cs # <<>> /\ Head(cs) \in Whitespace THEN LStrip(Tail(cs)) ELSE cs

RECURSIVE RStrip(_)
RStrip(cs) ==
    IF cs # <<>> /\ cs[Len(cs)] \in Whitespace
    THEN RStrip(SubSeq(cs, 1, Len(cs) - 1))
    ELSE cs

\* str.strip(): drop leading and trailing whitespace
Strip(cs) == RStrip(LStrip(cs))

\* str.startswith(prefix)
StartsWith(cs, prefix) ==
    /\ Len(prefix) <= Len(cs)
    /\ SubSeq(cs, 1, Len(prefix)) = prefix

\* the `in` operator on two str: substring test
Contains(cs, sub) ==
    \E i \in 0..(Len(cs) - Len(sub)) : \A j \in 1..Len(sub) : cs[i + j] = sub[j]

KW_SELECT == <<"S","E","L","E","C","T">>
KW_DELETE == <<"D","E","L","E","T","E">>
KW_DROP == <<"D","R","O","P">>
KW_INSERT == <<"I","N","S","E","R","T">>
KW_UPDATE == <<"U","P","D","A","T","E">>
KW_ALTER == <<"A","L","T","E","R">>
KW_CREATE == <<"C","R","E","A","T","E">>
KW_TRUNCATE == <<"T","R","U","N","C","A","T","E">>

\* dangerous_keywords, in the order of the list
dangerous_keywords ==
    <<KW_DELETE, KW_DROP, KW_INSERT, KW_UPDATE, KW_ALTER, KW_CREATE, KW_TRUNCATE>>

\* Names of the keywords, for the rejection message
KeywordName(k) ==
    CASE k = KW_DELETE -> "DELETE"
      [] k = KW_DROP -> "DROP"
      [] k = KW_INSERT -> "INSERT"
      [] k = KW_UPDATE -> "UPDATE"
      [] k = KW_ALTER -> "ALTER"
      [] k = KW_CREATE -> "CREATE"
      [] k = KW_TRUNCATE -> "TRUNCATE"
      [] OTHER -> "?"


----------------------------------------------------------------------------
(* Generic helpers on sequences *)


\* Stable sort of records on their integer field "key", ascending: a record
\* goes to the position that counts the records ordered before it
SortByKey(s) ==
    LET n == Len(s)
        rank == SubSeq([i \in 1..n |->
                           Cardinality({j \in 1..n :
                               \/ s[j].key < s[i].key
                               \/ s[j].key = s[i].key /\ j < i}) + 1], 1, n)
    IN  SubSeq([k \in 1..n |-> s[CHOOSE i \in 1..n : rank[i] = k]], 1, n)

\* SQL LIMIT n
Limit(s, n) == IF Len(s) > n THEN SubSeq(s, 1, n) ELSE s


\* Sum of an integer field f over a sequence of records
RECURSIVE SumFieldTo(_, _, _)
SumFieldTo(s, f, i) ==
    IF i = 0 THEN 0 ELSE s[i][f] + SumFieldTo(s, f, i - 1)

SumField(s, f) == SumFieldTo(s, f, Len(s))

\* SUM(total_amount)
SumAmount(s) == SumField(s, "total_amount")

\* x / y rendered with a fixed number of decimals: the quotient in the
\* rendered unit (cents for money), rounded down
Div(x, y) == x \div y

\* Python's x / y: ZeroDivisionError when y is 0, else the quotient
PyDiv(x, y) ==
    IF y = 0 THEN [k |-> "raise", cls |-> "ZeroDivisionError", msg |-> "division by zero"]
    ELSE [k |-> "value", v |-> Div(x, y)]

----------------------------------------------------------------------------
(* The store: a SQLite file with the tables product and `order`.  A table  *)
(* is the sequence of its rows in rowid (= id) order.                      *)

\* SQLite DATE(created_at): the calendar day of a timestamp
DateOf(ts) == ts \div 24
\* strftime('%H', created_at)
HourOf(ts) == ts % 24
\* strftime('%Y-W%W', created_at): the week a day falls in
WeekOf(ts) == DateOf(ts) \div 7
\* strftime('%Y-%m', created_at): the month a day falls in (30-day months)
MonthOf(ts) == DateOf(ts) \div 30

Item(pid, qty) == [product_id |-> pid, quantity |-> qty]

Order(id, name, amount, status, ts, items) ==
    [id |-> id, customer_name |-> name, customer_phone |-> "+1555",
     customer_address |-> "1 Main St", total_amount |-> amount,
     status |-> status, created_at |-> ts, items |-> items]

Product(id, name, price, stock) ==
    [id |-> id, name |-> name, description |-> "energy drink", price |-> price,
     stock |-> stock, image_url |-> "https://picsum.photos/300", created_at |-> 0]

\* The products of the seed script, and one with a two-digit identifier
SeedProducts ==
    << Product(1, "Thunder Bolt", 399, 100),
       Product(2, "Electric Storm", 449, 0),
       Product(10, "Atomic Blast", 299, 200) >>

\* Customer names, as character sequences: Ann Lee, Bob Ray, ann roe
Customers ==
    << <<"A","n","n"," ","L","e","e">>,
       <<"B","o","b"," ","R","a","y">>,
       <<"a","n","n"," ","r","o","e">> >>

\* A small order table: an old order with identifier 0, one order a day old
\* and two of the current day
SmallOrders ==
    << Order(0, Customers[1], 798, "pending", 3 * 24 + 9, <<Item(1, 2)>>),
       Order(1, Customers[2], 2500, "delivered", 9 * 24 + 13, <<Item(2, 5), Item(10, 1)>>),
       Order(2, Customers[1], 1500, "pending", 10 * 24 + 10, <<Item(10, 5)>>),
       Order(3, Customers[3], 399, "processing", 10 * 24 + 11, <<Item(1, 1)>>) >>

Statuses == <<"delivered", "pending", "processing">>

\* The order table the seed script generates: BigPerDay orders on each of
\* BigDays consecutive days (days 0 .. BigDays-1)
BigOrders ==
    [i \in 1..(BigDays * BigPerDay) |->
        Order(i, Customers[(i % 3) + 1], 100 + i, Statuses[(i % 3) + 1],
              ((i - 1) \div BigPerDay) * 24 + 8 + ((i - 1) % BigPerDay),
              <<Item((i % 2) + 1, 1)>>)]

\* total_col: the name of the order table's amount column (total_amount in
\* the application's schema, total in the schema database_dump.py creates).
\* created_at_decl: the declared type of order.created_at, which decides
\* whether sqlite3's PARSE_DECLTYPES converts it to a datetime.
Store(orders, col, decl) ==
    [tables |-> {"product", "order"}, product |-> SeedProducts, order |-> orders,
     total_col |-> col, created_at_decl |-> decl]

SmallStore == Store(SmallOrders, "total_amount", "TIMESTAMP")
SmallStoreText == Store(SmallOrders, "total_amount", "DATETIME")
DumpStore == Store(SmallOrders, "total", "DATETIME")
BigStore == Store(BigOrders, "total_amount", "TIMESTAMP")

\* The clock at start: day 10, 12:00 for the small stores
Now0 == 10 * 24 + 12
\* ... and noon of the day after the last order day for the large store
BigNow0 == BigDays * 24 + 12

----------------------------------------------------------------------------
(* Outcomes of a piece of Python code *)

Ret(text) == [k |-> "return", text |-> text]
Raise(cls, msg) == [k |-> "raise", cls |-> cls, msg |-> msg]

\* Exception classes the handlers can raise; all derive from Exception
ExceptionClasses ==
    {"KeyError", "AttributeError", "TypeError", "ValueError", "ZeroDivisionError",
     "OperationalError", "ProgrammingError"}

\* sqlite3.Error subclasses: raised by the store
StoreErrors == {"OperationalError", "ProgrammingError"}


----------------------------------------------------------------------------
(* SQLite on the text of an ad-hoc statement, as Python's sqlite3 runs it  *)

\* The tokens of a statement: maximal runs of non-blank characters, with
\* ";" a token of its own
RECURSIVE Tokens(_)
Tokens(cs) ==
    IF cs = <<>> THEN <<>>
    ELSE IF Head(cs) \in Whitespace THEN Tokens(Tail(cs))
    ELSE IF Head(cs) = ";" THEN << <<";">> >> \o Tokens(Tail(cs))
    ELSE LET stops == {i \in 1..Len(cs) : cs[i] \in Whitespace \cup {";"}}
             n == IF stops = {} THEN Len(cs)
                  ELSE (CHOOSE i \in stops : \A j \in stops : i <= j) - 1
         IN  <<SubSeq(cs, 1, n)>> \o Tokens(SubSeq(cs, n + 1, Len(cs)))

\* The word an upper-cased token stands for ("" for a token SQLite does not
\* know in this schema); keywords and identifiers are case-insensitive
WordOf(u) ==
        CASE u = <<"S","E","L","E","C","T">> -> "select"
      [] u = <<"F","R","O","M">> -> "from"
      [] u = <<"D","R","O","P">> -> "drop"
      [] u = <<"T","A","B","L","E">> -> "table"
      [] u = <<"D","E","L","E","T","E">> -> "delete"
      [] u = <<"*">> -> "*"
      [] u = <<"P","R","O","D","U","C","T">> -> "product"
      [] u = <<"[","O","R","D","E","R","]">> -> "order"
      [] u = <<"I","D">> -> "id"
      [] u = <<"N","A","M","E">> -> "name"
      [] u = <<"D","E","S","C","R","I","P","T","I","O","N">> -> "description"
      [] u = <<"P","R","I","C","E">> -> "price"
      [] u = <<"S","T","O","C","K">> -> "stock"
      [] u = <<"I","M","A","G","E","_","U","R","L">> -> "image_url"
      [] u = <<"C","R","E","A","T","E","D","_","A","T">> -> "created_at"
      [] u = <<"C","U","S","T","O","M","E","R","_","N","A","M","E">> -> "customer_name"
      [] u = <<"C","U","S","T","O","M","E","R","_","P","H","O","N","E">> -> "customer_phone"
      [] u = <<"C","U","S","T","O","M","E","R","_","A","D","D","R","E","S","S">> -> "customer_address"
      [] u = <<"I","T","E","M","S">> -> "items"
      [] u = <<"T","O","T","A","L","_","A","M","O","U","N","T">> -> "total_amount"
      [] u = <<"T","O","T","A","L">> -> "total"
      [] u = <<"S","T","A","T","U","S">> -> "status"
      [] OTHER -> ""

SqlWord(tok) == WordOf(Upper(tok))

ProductColumns == <<"id", "name", "description", "price", "stock", "image_url", "created_at">>

OrderColumns(d) ==
    <<"id", "customer_name", "customer_phone", "customer_address", "items",
      d.total_col, "status", "created_at">>

TableColumns(d, tbl) == IF tbl = "product" THEN ProductColumns ELSE OrderColumns(d)

\* The value of a column in a row (the amount column under either name)
ColumnValue(row, col) == IF col = "total" THEN row.total_amount ELSE row[col]

\* An execute() outcome: the rows a following fetchall() returns with the
\* column names of cursor.description, or an exception; db is the store
\* once the connection is closed without commit
Rows(cols, rows, d) == [k |-> "rows", cols |-> cols, rows |-> rows, db |-> d]
SqlError(cls, msg, d) == [k |-> "raise", cls |-> cls, msg |-> msg, db |-> d]

\* The position of the first ";" token, 0 when there is none
FirstSemicolon(toks) ==
    LET at == {i \in 1..Len(toks) : toks[i] = <<";">>}
    IN  IF at = {} THEN 0 ELSE CHOOSE i \in at : \A j \in at : i <= j

KnownTable(d, w) == w \in {"product", "order"} /\ w \in d.tables

\* sqlite3_prepare of one statement (its words): the error, or ""
Compile(d, w) ==
    CASE Len(w) = 4 /\ w[1] = "select" /\ w[3] = "from" ->
            IF ~KnownTable(d, w[4]) THEN "no such table"
            ELSE IF w[2] # "*" /\ (\A i \in 1..Len(TableColumns(d, w[4])) : TableColumns(d, w[4])[i] # w[2])
            THEN "no such column"
            ELSE ""
      [] Len(w) = 3 /\ w[1] = "drop" /\ w[2] = "table" ->
            IF ~KnownTable(d, w[3]) THEN "no such table" ELSE ""
      [] Len(w) = 3 /\ w[1] = "delete" /\ w[2] = "from" ->
            IF ~KnownTable(d, w[3]) THEN "no such table" ELSE ""
      [] OTHER -> "syntax error"

\* cursor.execute(query) for caller-supplied text.  sqlite3 compiles the
\* first statement of the text and refuses text that holds anything after
\* it, before running it.  A SELECT reads.  DROP TABLE is DDL and takes
\* effect at once (autocommit).  DELETE is DML: sqlite3 opens a transaction
\* that close() without commit() rolls back.

Words(toks) == SubSeq([i \in 1..Len(toks) |-> SqlWord(toks[i])], 1, Len(toks))

\* fetchall() of SELECT <cols> FROM <tbl>
SelectRows(d, tbl, cols) ==
    Rows(cols,
         [i \in 1..Len(d[tbl]) |->
             [j \in 1..Len(cols) |-> ColumnValue(d[tbl][i], cols[j])]], d)

\* The text has the tokens toks, its first statement the words w and the
\* compile error err
RunStatement(d, toks, semi, w, err) ==
    IF err # ""
    THEN SqlError("OperationalError", err, d)
    ELSE IF semi # 0 /\ semi < Len(toks)
    THEN SqlError("ProgrammingError", "You can only execute one statement at a time.", d)
    ELSE IF w[1] = "select"
    THEN SelectRows(d, w[4], IF w[2] = "*" THEN TableColumns(d, w[4]) ELSE <<w[2]>>)
    ELSE IF w[1] = "drop"
    THEN Rows(<<>>, <<>>, [d EXCEPT !.tables = @ \ {w[3]}, ![w[3]] = <<>>])
    ELSE Rows(<<>>, <<>>, d)

PrepareStatement(d, toks, semi, w) == RunStatement(d, toks, semi, w, Compile(d, w))

ExecuteTokens(d, toks, semi) ==
    PrepareStatement(d, toks, semi,
                     Words(IF semi = 0 THEN toks ELSE SubSeq(toks, 1, semi - 1)))

AdhocExecute(d, cs) == ExecuteTokens(d, Tokens(cs), FirstSemicolon(Tokens(cs)))

----------------------------------------------------------------------------
(* Handlers.  A handler's result: what it returned or raised, how many     *)
(* connections it opened and closed, the store afterwards and the number   *)
(* of statements it handed to cursor.execute.                              *)

HR(out, opened, closed, d, stmts) ==
    [out |-> out, opened |-> opened, closed |-> closed, db |-> d, stmts |-> stmts]

\* A handler that fails or returns before get_db_connection()
NoConn(out, d) == HR(out, 0, 0, d, 0)

\* A mutant of Finally: conn.close() at the end of the try block only
CloseOnReturnOnly(out, d, stmts) ==
    HR(out, 1, IF out.k = "return" THEN 1 ELSE 0, d, stmts)

\* conn = self.get_db_connection() ... try: <body> finally: conn.close()
\* The finally clause runs whether the body returned or raised.
Finally(out, d, stmts) == HR(out, 1, 1, d, stmts)

\* A mutant of Get: dict.get(key), None when the key is absent
GetNone(args, key, default) == IF key \in DOMAIN args THEN args[key] ELSE PyNone

\* dict.get(key, default)
Get(args, key, default) == IF key \in DOMAIN args THEN args[key] ELSE default

\* Rows of an ad-hoc result the report shows
MaxRows == 100

\* A mutant of FirstKeyword: a keyword is found where it is a whole word of
\* the query, not inside a longer word
FirstKeywordWholeWord(query_upper) ==
    LET hits == {i \in 1..Len(dangerous_keywords) :
                    \E k \in 1..Len(Tokens(query_upper)) :
                        Tokens(query_upper)[k] = dangerous_keywords[i]}
    IN  IF hits = {} THEN 0 ELSE CHOOSE i \in hits : \A j \in hits : i <= j

\* The index of the first dangerous keyword found in the upper-cased
\* query, 0 when there is none
FirstKeyword(query_upper) ==
    LET hits == {i \in 1..Len(dangerous_keywords) :
                    Contains(query_upper, dangerous_keywords[i])}
    IN  IF hits = {} THEN 0 ELSE CHOOSE i \in hits : \A j \in hits : i <= j

\* A mutant of SafetyCheck: the checks on the query as typed, not upper-cased
SafetyCheckCaseSensitive(query) ==
    IF ~StartsWith(query, KW_SELECT) THEN [msg |-> "only_select"]
    ELSE IF FirstKeyword(query) # 0
    THEN [msg |-> "dangerous_keyword",
          keyword |-> KeywordName(dangerous_keywords[FirstKeyword(query)])]
    ELSE [msg |-> "ok"]

\* A mutant of SafetyCheck: no check at all
SafetyCheckNone(query) == [msg |-> "ok"]

\* The safety checks of execute_custom_query on the stripped query: the
\* rejection text, or "ok"
SafetyCheck(query) ==
    LET query_upper == Upper(query)
        hit == FirstKeyword(query_upper)
    IN  IF ~StartsWith(query_upper, KW_SELECT) THEN [msg |-> "only_select"]
        ELSE IF hit # 0
        THEN [msg |-> "dangerous_keyword", keyword |-> KeywordName(dangerous_keywords[hit])]
        ELSE [msg |-> "ok"]

\* A mutant of FormatRows: every row of the result, without the slice
FormatRowsAll(cols, rows) ==
    [i \in 1..Len(rows) |->
        [j \in 1..(IF Len(cols) <= Len(rows[i]) THEN Len(cols) ELSE Len(rows[i])) |->
            <<cols[j], rows[i][j]>>]]

\* The rows the report shows: the first MaxRows of the result, each a list of
\* (column name, value) pairs made by zip(column_names, row)
FormatRows(cols, rows) ==
    [i \in 1..Len(Limit(rows, MaxRows)) |->
        [j \in 1..(IF Len(cols) <= Len(rows[i]) THEN Len(cols) ELSE Len(rows[i])) |->
            <<cols[j], rows[i][j]>>]]

\* A mutant of CustomQueryBody: no except clause around cursor.execute
CustomQueryBodyNoExcept(query, r) ==
    IF r.k = "raise" THEN Raise(r.cls, r.msg)
    ELSE IF r.rows = <<>> THEN Ret([msg |-> "no_results"])
    ELSE Ret([msg |-> "custom_query_results", query |-> query,
              n_rows |-> Len(r.rows), columns |-> r.cols,
              rows |-> FormatRows(r.cols, r.rows),
              truncated |-> Len(r.rows) > MaxRows])

\* try: cursor.execute(query) ... except Exception as e: "Query error"
\* r is the outcome of cursor.execute(query)
CustomQueryBody(query, r) ==
    IF r.k = "raise" THEN Ret([msg |-> "query_error", error |-> r.msg])
    ELSE IF r.rows = <<>> THEN Ret([msg |-> "no_results"])
    ELSE Ret([msg |-> "custom_query_results", query |-> query,
              n_rows |-> Len(r.rows), columns |-> r.cols,
              rows |-> FormatRows(r.cols, r.rows),
              truncated |-> Len(r.rows) > MaxRows])

\* The part of execute_custom_query that holds a connection
RunCustomQuery(query, r) == Finally(CustomQueryBody(query, r), r.db, 1)

\* A mutant of CheckedQuery: the connection acquired before the checks
CheckedQueryConnectionFirst(d, query, check) ==
    IF check.msg # "ok" THEN Finally(Ret(check), d, 0)
    ELSE RunCustomQuery(query, AdhocExecute(d, query))

\* execute_custom_query on the stripped query, check the result of its checks
CheckedQuery(d, query, check) ==
    IF check.msg # "ok" THEN NoConn(Ret(check), d)
    ELSE RunCustomQuery(query, AdhocExecute(d, query))


\* A mutant of execute_custom_query: the mapping is unpacked into keyword
\* arguments, so a key other than query is a TypeError
ExecuteCustomQueryKeywordOnly(args, d) ==
    IF DOMAIN args # {"query"}
    THEN NoConn(Raise("TypeError", "got an unexpected keyword argument"), d)
    ELSE IF args.query.t # "str"
    THEN NoConn(Raise("AttributeError", "object has no attribute 'strip'"), d)
    ELSE CheckedQuery(d, Strip(args.query.cs), SafetyCheck(Strip(args.query.cs)))

execute_custom_query(args, d) ==
    IF "query" \notin DOMAIN args THEN NoConn(Raise("KeyError", "'query'"), d)
    ELSE IF args.query.t # "str"
    THEN NoConn(Raise("AttributeError", "object has no attribute 'strip'"), d)
    ELSE CheckedQuery(d, Strip(args.query.cs), SafetyCheck(Strip(args.query.cs)))

----------------------------------------------------------------------------
(* Ad-hoc statements the model hands to execute_custom_query *)

\* SELECT name FROM product
Q_select_name ==
    <<"S","E","L","E","C","T"," ","n","a","m","e"," ","F","R","O","M"," ","p","r","o","d","u","c","t">>
\* SELECT FROM
Q_select_syntax ==
    <<"S","E","L","E","C","T"," ","F","R","O","M">>
\* drop table [order]
Q_drop_lower ==
    <<"d","r","o","p"," ","t","a","b","l","e"," ","[","o","r","d","e","r","]">>
\* select id from [order]; truncate product
Q_stack_truncate ==
    <<"s","e","l","e","c","t"," ","i","d"," ","f","r","o","m"," ","[","o","r","d","e","r","]",";"," ","t","r","u","n","c","a","t","e"," ","p","r","o","d","u","c","t">>
\* SELECT name FROM product; REPLACE INTO product (id) VALUES (1)
Q_stack_replace ==
    <<"S","E","L","E","C","T"," ","n","a","m","e"," ","F","R","O","M"," ","p","r","o","d","u","c","t",";"," ","R","E","P","L","A","C","E"," ","I","N","T","O"," ","p","r","o","d","u","c","t"," ","(","i","d",")"," ","V","A","L","U","E","S"," ","(","1",")">>

Queries ==
    { \* SELECT name FROM product
     Q_select_name,
     \* select name from product
     <<"s","e","l","e","c","t"," ","n","a","m","e"," ","f","r","o","m"," ","p","r","o","d","u","c","t">>,
     \* SELECT created_at FROM product
     <<"S","E","L","E","C","T"," ","c","r","e","a","t","e","d","_","a","t"," ","F","R","O","M"," ","p","r","o","d","u","c","t">>,
     \* select created_at from [order]
     <<"s","e","l","e","c","t"," ","c","r","e","a","t","e","d","_","a","t"," ","f","r","o","m"," ","[","o","r","d","e","r","]">>,
     \* SELECT created_at FROM product; DROP TABLE product
     <<"S","E","L","E","C","T"," ","c","r","e","a","t","e","d","_","a","t"," ","F","R","O","M"," ","p","r","o","d","u","c","t",";"," ","D","R","O","P"," ","T","A","B","L","E"," ","p","r","o","d","u","c","t">>,
     \* VALUES ('created_at')
     <<"V","A","L","U","E","S"," ","(","'","c","r","e","a","t","e","d","_","a","t","'",")">>,
     \* SELECT id FROM [order]
     <<"S","E","L","E","C","T"," ","i","d"," ","F","R","O","M"," ","[","o","r","d","e","r","]">>,
     \* SELECT total_amount FROM [order]
     <<"S","E","L","E","C","T"," ","t","o","t","a","l","_","a","m","o","u","n","t"," ","F","R","O","M"," ","[","o","r","d","e","r","]">>,
     \* SELECT * FROM product
     <<"S","E","L","E","C","T"," ","*"," ","F","R","O","M"," ","p","r","o","d","u","c","t">>,
     \* SELECT name FROM product;
     <<"S","E","L","E","C","T"," ","n","a","m","e"," ","F","R","O","M"," ","p","r","o","d","u","c","t",";">>,
     \* SELECT name FROM nosuch
     <<"S","E","L","E","C","T"," ","n","a","m","e"," ","F","R","O","M"," ","n","o","s","u","c","h">>,
     \* SELECT FROM
     Q_select_syntax,
     \* SELECTname FROM product
     <<"S","E","L","E","C","T","n","a","m","e"," ","F","R","O","M"," ","p","r","o","d","u","c","t">>,
     \* DROP TABLE product
     <<"D","R","O","P"," ","T","A","B","L","E"," ","p","r","o","d","u","c","t">>,
     \* drop table [order]
     Q_drop_lower,
     \* DELETE FROM [order]
     <<"D","E","L","E","T","E"," ","F","R","O","M"," ","[","o","r","d","e","r","]">>,
     \* SELECT name FROM product; DELETE FROM product
     <<"S","E","L","E","C","T"," ","n","a","m","e"," ","F","R","O","M"," ","p","r","o","d","u","c","t",";"," ","D","E","L","E","T","E"," ","F","R","O","M"," ","p","r","o","d","u","c","t">>,
     \* SELECT name FROM product; dRoP TABLE product
     <<"S","E","L","E","C","T"," ","n","a","m","e"," ","F","R","O","M"," ","p","r","o","d","u","c","t",";"," ","d","R","o","P"," ","T","A","B","L","E"," ","p","r","o","d","u","c","t">>,
     \* SELECT name FROM product; insert INTO product DEFAULT VALUES
     <<"S","E","L","E","C","T"," ","n","a","m","e"," ","F","R","O","M"," ","p","r","o","d","u","c","t",";"," ","i","n","s","e","r","t"," ","I","N","T","O"," ","p","r","o","d","u","c","t"," ","D","E","F","A","U","L","T"," ","V","A","L","U","E","S">>,
     \* SELECT name FROM product; UPDATE product SET stock = 0
     <<"S","E","L","E","C","T"," ","n","a","m","e"," ","F","R","O","M"," ","p","r","o","d","u","c","t",";"," ","U","P","D","A","T","E"," ","p","r","o","d","u","c","t"," ","S","E","T"," ","s","t","o","c","k"," ","="," ","0">>,
     \* SELECT name FROM product; ALTER TABLE product RENAME TO p
     <<"S","E","L","E","C","T"," ","n","a","m","e"," ","F","R","O","M"," ","p","r","o","d","u","c","t",";"," ","A","L","T","E","R"," ","T","A","B","L","E"," ","p","r","o","d","u","c","t"," ","R","E","N","A","M","E"," ","T","O"," ","p">>,
     \* SELECT name FROM product; CREATE TABLE t (x)
     <<"S","E","L","E","C","T"," ","n","a","m","e"," ","F","R","O","M"," ","p","r","o","d","u","c","t",";"," ","C","R","E","A","T","E"," ","T","A","B","L","E"," ","t"," ","(","x",")">>,
     \* select id from [order]; truncate product
     Q_stack_truncate,
     \* SELECT name FROM product; REPLACE INTO product (id) VALUES (1)
     Q_stack_replace}

\* The query arguments: each statement bare, some wrapped in whitespace, a
\* non-string, and a mapping without the key
QueryArgs ==
    {[query |-> PyText(q)] : q \in Queries}
    \cup {[query |-> PyText([i \in 1..n |-> " "] \o q \o [i \in 1..n |-> "\n"])] :
              n \in 1..MaxPad,
              q \in {Q_select_name, Q_select_syntax, Q_drop_lower, Q_stack_truncate}}
    \cup {[query |-> PyInt(7)], [k \in {} |-> PyNone], [sql |-> PyText(Q_select_name)],
          [query |-> PyText(Q_select_name), limit |-> PyInt(1)]}


----------------------------------------------------------------------------
(* The fixed statements of the tools, on the order table *)

\* Row caps of the itemized sections (the LIMIT clauses and slices)
CustomerOrdersCap == 10
SearchCap == 50
DayGroupCap == 30
TopCustomersCap == 20

\* The error SQLite raises for a statement on `order`, "" when it compiles:
\* every statement names total_amount except COUNT(*) and the items LIKE
OrderStatementError(d, uses_total) ==
    IF "order" \notin d.tables THEN "no such table: order"
    ELSE IF uses_total /\ d.total_col # "total_amount" THEN "no such column: total_amount"
    ELSE ""

\* Whether a selected created_at column arrives as a datetime (its declared
\* type has a converter) or as the stored text
IsDatetime(d) == d.created_at_decl = "TIMESTAMP"

\* WHERE customer_name LIKE '%pat%': case-insensitive substring
Like(name, pat) == Contains(Upper(name), Upper(pat))

\* ORDER BY created_at DESC: most recent first, ties in rowid order
OrderByCreatedDesc(rows) ==
    LET keyed == [i \in 1..Len(rows) |-> [key |-> 0 - rows[i].created_at, row |-> rows[i]]]
        sorted == SortByKey(keyed)
    IN  [i \in 1..Len(sorted) |-> sorted[i].row]

\* The text that "-{} days".format(days) puts into datetime('now', ...):
\* a window of n days, an always-true condition (the value closes the
\* string literal and adds OR 1=1), a second statement after the first
\* (stacked), or a modifier SQLite does not understand, for which
\* datetime() is NULL and no row qualifies
S_tautology == "1 days') OR 1=1 --"
S_stacked == "1 days'); DROP TABLE product; --"

Window(days) ==
    CASE days.t = "int" /\ days.i >= 0 -> [k |-> "window", days |-> days.i]
      [] days.t = "str" /\ days = PyStr("7") -> [k |-> "window", days |-> 7]
      [] days.t = "str" /\ days = PyStr(S_tautology) -> [k |-> "all"]
      [] days.t = "str" /\ days = PyStr(S_stacked) -> [k |-> "stacked"]
      [] OTHER -> [k |-> "null"]

\* A mutant of InWindow: the window ends a day before the current time
InWindowStale(o, win, t) ==
    CASE win.k = "window" -> o.created_at >= (t - 24) - 24 * win.days
      [] win.k = "all" -> TRUE
      [] OTHER -> FALSE

\* WHERE created_at >= datetime('now', '-N days') at clock t
InWindow(o, win, t) ==
    CASE win.k = "window" -> o.created_at >= t - 24 * win.days
      [] win.k = "all" -> TRUE
      [] OTHER -> FALSE

\* The error of a windowed statement, "" when it runs
WindowedError(d, win) ==
    IF OrderStatementError(d, TRUE) # "" THEN [cls |-> "OperationalError",
                                               msg |-> OrderStatementError(d, TRUE)]
    ELSE IF win.k = "stacked"
    THEN [cls |-> "ProgrammingError", msg |-> "You can only execute one statement at a time."]
    ELSE [cls |-> "", msg |-> ""]

\* A mutant of WindowRows: the statement without its WHERE clause
WindowRowsAll(d, win, t) == d.order

WindowRows(d, win, t) == SelectSeq(d.order, LAMBDA o : InWindow(o, win, t))

\* The sort key of a date argument in SQLite's text comparison with
\* DATE(created_at): the day of an ISO date; a text starting with a digit
\* below "1" sorts before every date, any other text after every date
S_slashes == "06/08/2025"

DateKey(v) ==
    IF v.t = "str" /\ "iso" \in DOMAIN v THEN v.iso
    ELSE IF v.t = "str" /\ v = PyStr(S_slashes) THEN 0 - 1
    ELSE IF v.t = "str" THEN 1000000
    ELSE 0 - 1

\* WHERE DATE(created_at) BETWEEN ? AND ?
InRange(o, lo, hi) ==
    /\ DateKey(lo) <= DateOf(o.created_at)
    /\ DateOf(o.created_at) <= DateKey(hi)

RangeRows(d, lo, hi) == SelectSeq(d.order, LAMBDA o : InRange(o, lo, hi))

\* The distinct values of keys, in order of first occurrence
Distinct(keys) ==
    LET firsts == {i \in 1..Len(keys) : \A j \in 1..(i - 1) : keys[j] # keys[i]}
        m == Cardinality(firsts)
    IN  SubSeq([k \in 1..m |->
                   keys[CHOOSE i \in firsts : Cardinality({j \in firsts : j <= i}) = k]],
               1, m)

Max(S) == CHOOSE x \in S : \A y \in S : y <= x
Min(S) == CHOOSE x \in S : \A y \in S : x <= y

\* The value an order is grouped by
GroupKey(o, by) ==
    CASE by = "day" -> DateOf(o.created_at)
      [] by = "week" -> WeekOf(o.created_at)
      [] by = "month" -> MonthOf(o.created_at)
      [] by = "hour" -> HourOf(o.created_at)
      [] by = "status" -> o.status
      [] by = "customer" -> o.customer_name

\* GROUP BY: per group COUNT(*), SUM(total_amount), AVG(total_amount) and
\* MAX(created_at)
GroupBy(rows, by) ==
    LET keys == Distinct(SubSeq([i \in 1..Len(rows) |-> GroupKey(rows[i], by)], 1, Len(rows)))
    IN  [g \in 1..Len(keys) |->
            LET members == SelectSeq(rows, LAMBDA o : GroupKey(o, by) = keys[g])
            IN  [period |-> keys[g], orders |-> Len(members),
                 revenue |-> SumAmount(members),
                 avg_order |-> Div(SumAmount(members), Len(members)),
                 last_order |-> Max({members[i].created_at : i \in 1..Len(members)})]]

\* The position of a status in alphabetical order
StatusRank(st) ==
    IF \E i \in 1..Len(Statuses) : Statuses[i] = st
    THEN CHOOSE i \in 1..Len(Statuses) : Statuses[i] = st
    ELSE 0

\* ORDER BY: the groups in ascending (sign 1) or descending (sign -1) order
\* of the field f, status groups in alphabetical order of the status
OrderGroups(groups, f, sign) ==
    LET sorted == SortByKey([i \in 1..Len(groups) |->
                      [key |-> IF f = "status" THEN StatusRank(groups[i].period)
                               ELSE sign * groups[i][f],
                       g |-> groups[i]]])
    IN  [i \in 1..Len(sorted) |-> sorted[i].g]

----------------------------------------------------------------------------
(* get_order_details *)

\* WHERE id = ?: the rows whose identifier equals an integer parameter
OrdersWithId(d, v) ==
    SelectSeq(d.order, LAMBDA o : v.t = "int" /\ o.id = v.i)

\* The branch "order_id" in args and args["order_id"]
OrderDetailsById(d, v) ==
    IF OrderStatementError(d, TRUE) # ""
    THEN Raise("OperationalError", OrderStatementError(d, TRUE))
    ELSE IF OrdersWithId(d, v) = <<>>
    THEN Ret([msg |-> "order_not_found", order_id |-> v])
    ELSE LET order == OrdersWithId(d, v)[1]
         IN  Ret([msg |-> "order_details", id |-> order.id,
                  customer_name |-> order.customer_name,
                  customer_phone |-> order.customer_phone,
                  customer_address |-> order.customer_address,
                  total_amount |-> order.total_amount, status |-> order.status,
                  \* the date line: strftime on a datetime, str() on anything else
                  order_date |-> [ts |-> order.created_at,
                                 via |-> IF IsDatetime(d) THEN "strftime" ELSE "str"],
                  items |-> order.items])

\* The branch "customer_name" in args and args["customer_name"]; the
\* pattern is a character sequence
OrderDetailsByName(d, v) ==
    LET orders == Limit(OrderByCreatedDesc(
                      SelectSeq(d.order, LAMBDA o : Like(o.customer_name, v.cs))),
                      CustomerOrdersCap)
    IN  IF OrderStatementError(d, TRUE) # ""
        THEN Raise("OperationalError", OrderStatementError(d, TRUE))
        ELSE IF orders = <<>>
        THEN Ret([msg |-> "no_orders_for_customer", customer_name |-> v])
        ELSE IF ~IsDatetime(d)
        THEN Raise("AttributeError", "'str' object has no attribute 'strftime'")
        ELSE Ret([msg |-> "orders_for_customer", customer_name |-> v,
                  orders |-> [i \in 1..Len(orders) |->
                      [id |-> orders[i].id, customer_name |-> orders[i].customer_name,
                       customer_phone |-> orders[i].customer_phone,
                       total_amount |-> orders[i].total_amount,
                       status |-> orders[i].status, date |-> orders[i].created_at,
                       customer_address |-> orders[i].customer_address]]])

\* "order_id" in args and args["order_id"]
UseOrderId(args) == "order_id" \in DOMAIN args /\ Truthy(args.order_id)

get_order_details(args, d) ==
    IF UseOrderId(args)
    THEN Finally(OrderDetailsById(d, args.order_id), d, 1)
    ELSE IF "customer_name" \in DOMAIN args /\ Truthy(args.customer_name)
    THEN Finally(OrderDetailsByName(d, args.customer_name), d, 1)
    ELSE Finally(Ret([msg |-> "provide_order_id_or_customer_name"]), d, 0)

----------------------------------------------------------------------------
(* get_order_summary *)

\* A mutant of DailyAverage: daily_avg = recent_count / days
DailyAverageUnguarded(recent_count, days) == PyDiv(10 * recent_count, days.i)

\* daily_avg = recent_count / days if days > 0 else 0, shown with one
\* decimal (in tenths); days > 0 raises TypeError on a str
DailyAverage(recent_count, days) ==
    IF days.i > 0 THEN PyDiv(10 * recent_count, days.i) ELSE [k |-> "value", v |-> 0]

\* GROUP BY status over the window: status, COUNT(*), SUM(total_amount)
StatusBreakdown(rows) ==
    LET groups == OrderGroups(GroupBy(rows, "status"),
                              "status", 1)
    IN  [i \in 1..Len(groups) |->
            [status |-> groups[i].period, count |-> groups[i].orders,
             revenue |-> groups[i].revenue]]

OrderSummaryBody(days, d, t) ==
    LET recent == WindowRows(d, Window(days), t)
        recent_count == Len(recent)
    IN  IF OrderStatementError(d, FALSE) # ""
        THEN [out |-> Raise("OperationalError", OrderStatementError(d, FALSE)), stmts |-> 1]
        ELSE IF WindowedError(d, Window(days)).cls # ""
        THEN [out |-> Raise(WindowedError(d, Window(days)).cls,
                            WindowedError(d, Window(days)).msg), stmts |-> 2]
        ELSE IF days.t # "int"
        THEN [out |-> Raise("TypeError", "'>' not supported between instances"),
              stmts |-> 3]
        ELSE IF DailyAverage(recent_count, days).k = "raise"
        THEN [out |-> Raise("ZeroDivisionError", DailyAverage(recent_count, days).msg),
              stmts |-> 3]
        ELSE [out |-> Ret([msg |-> "order_summary", days |-> days,
                  total_orders |-> Len(d.order),
                  recent_count |-> recent_count,
                  daily_avg |-> DailyAverage(recent_count, days).v,
                  avg_amount |-> IF recent_count = 0 THEN 0
                                 ELSE Div(SumAmount(recent), recent_count),
                  total_revenue |-> SumAmount(recent),
                  status_breakdown |-> StatusBreakdown(recent)]),
              stmts |-> 3]

get_order_summary(args, d, t) ==
    LET body == OrderSummaryBody(Get(args, "days", PyInt(30)), d, t)
    IN  Finally(body.out, d, body.stmts)

----------------------------------------------------------------------------
(* search_orders_by_date *)

\* total_orders = len(orders), total_revenue = sum(order[2] ...), avg_order:
\* computed from the rows fetched (after LIMIT), not from all matching rows
SearchSummary(matching, orders) ==
    [total_orders |-> Len(orders), total_revenue |-> SumAmount(orders),
     avg_order |-> IF Len(orders) > 0 THEN Div(SumAmount(orders), Len(orders)) ELSE 0]

SearchBody(args, d) ==
    IF "start_date" \notin DOMAIN args THEN [out |-> Raise("KeyError", "'start_date'"), stmts |-> 0]
    ELSE IF "end_date" \notin DOMAIN args THEN [out |-> Raise("KeyError", "'end_date'"), stmts |-> 0]
    ELSE IF OrderStatementError(d, TRUE) # ""
    THEN [out |-> Raise("OperationalError", OrderStatementError(d, TRUE)), stmts |-> 1]
    ELSE LET matching == RangeRows(d, args.start_date, args.end_date)
             orders == Limit(OrderByCreatedDesc(matching), SearchCap)
             summary == SearchSummary(matching, orders)
         IN  IF orders = <<>>
             THEN [out |-> Ret([msg |-> "no_orders_between", start_date |-> args.start_date,
                                end_date |-> args.end_date]), stmts |-> 1]
             ELSE IF ~IsDatetime(d)
             THEN [out |-> Raise("AttributeError", "'str' object has no attribute 'strftime'"),
                   stmts |-> 1]
             ELSE [out |-> Ret([msg |-> "orders_in_range", start_date |-> args.start_date,
                       end_date |-> args.end_date,
                       total_orders |-> summary.total_orders,
                       total_revenue |-> summary.total_revenue,
                       avg_order |-> summary.avg_order,
                       orders |-> [i \in 1..Len(orders) |->
                           [id |-> orders[i].id, customer_name |-> orders[i].customer_name,
                            total_amount |-> orders[i].total_amount,
                            status |-> orders[i].status, date |-> orders[i].created_at]]]),
                   stmts |-> 1]

search_orders_by_date(args, d) ==
    Finally(SearchBody(args, d).out, d, SearchBody(args, d).stmts)


----------------------------------------------------------------------------
(* get_product_details *)

\* The decimal digits of a natural number
RECURSIVE Digits(_)
Digits(n) == IF n < 10 THEN <<n>> ELSE Append(Digits(n \div 10), n % 10)

\* items LIKE '%"product_id": N%' on the JSON text of the line items: some
\* item's product_id is written with the digits of N at its start
ItemsLike(items, pid) ==
    \E i \in 1..Len(items) :
        /\ Len(Digits(pid)) <= Len(Digits(items[i].product_id))
        /\ SubSeq(Digits(items[i].product_id), 1, Len(Digits(pid))) = Digits(pid)

ProductById(d, v) ==
    LET found == SelectSeq(d.product, LAMBDA p : v.t = "int" /\ p.id = v.i)
    IN  IF "product" \notin d.tables
        THEN [out |-> Raise("OperationalError", "no such table: product"), stmts |-> 1]
        ELSE IF found = <<>>
        THEN [out |-> Ret([msg |-> "product_not_found", product_id |-> v]), stmts |-> 1]
        ELSE IF OrderStatementError(d, FALSE) # ""
        THEN [out |-> Raise("OperationalError", OrderStatementError(d, FALSE)), stmts |-> 2]
        ELSE [out |-> Ret([msg |-> "product_details", id |-> found[1].id,
                  name |-> found[1].name, description |-> found[1].description,
                  price |-> found[1].price, stock |-> found[1].stock,
                  image_url |-> found[1].image_url,
                  order_count |-> Len(SelectSeq(d.order,
                                      LAMBDA o : ItemsLike(o.items, found[1].id))),
                  in_stock |-> found[1].stock > 0]),
              stmts |-> 2]

AllProducts(d) ==
    IF "product" \notin d.tables
    THEN [out |-> Raise("OperationalError", "no such table: product"), stmts |-> 1]
    ELSE IF d.product = <<>>
    THEN [out |-> Ret([msg |-> "no_products"]), stmts |-> 1]
    ELSE [out |-> Ret([msg |-> "all_products",
              products |-> [i \in 1..Len(d.product) |->
                  [name |-> d.product[i].name, id |-> d.product[i].id,
                   price |-> d.product[i].price, stock |-> d.product[i].stock,
                   in_stock |-> d.product[i].stock > 0,
                   description |-> d.product[i].description]]]),
          stmts |-> 1]

get_product_details(args, d) ==
    LET body == IF "product_id" \in DOMAIN args /\ Truthy(args.product_id)
                THEN ProductById(d, args.product_id)
                ELSE AllProducts(d)
    IN  Finally(body.out, d, body.stmts)

----------------------------------------------------------------------------
(* get_revenue_analysis *)

\* The rows of the grouped statement: one per day (at most DayGroupCap),
\* week or month of the window, most recent period first.  Any group_by
\* other than "day" and "week" takes the month branch.
RevenueData(rows, group_by) ==
    IF group_by = PyStr("day")
    THEN Limit(OrderGroups(GroupBy(rows, "day"),
                           "period", 0 - 1), DayGroupCap)
    ELSE IF group_by = PyStr("week")
    THEN OrderGroups(GroupBy(rows, "week"), "period", 0 - 1)
    ELSE OrderGroups(GroupBy(rows, "month"), "period", 0 - 1)

\* A mutant of RevenueTotals: the totals of all the orders of the window
RevenueTotalsOfWindow(rows, revenue_data) ==
    [total_revenue |-> SumAmount(rows), total_orders |-> Len(rows),
     avg_order_value |-> IF Len(rows) > 0 THEN Div(SumAmount(rows), Len(rows)) ELSE 0]

\* total_revenue = sum(row[2] ...), total_orders = sum(row[1] ...) over the
\* rows fetched
RevenueTotals(rows, revenue_data) ==
    [total_revenue |-> SumField(revenue_data, "revenue"),
     total_orders |-> SumField(revenue_data, "orders"),
     avg_order_value |-> IF SumField(revenue_data, "orders") > 0
                         THEN Div(SumField(revenue_data, "revenue"),
                                  SumField(revenue_data, "orders"))
                         ELSE 0]

RevenueBody(days, group_by, d, t) ==
    LET rows == WindowRows(d, Window(days), t)
        revenue_data == RevenueData(rows, group_by)
        totals == RevenueTotals(rows, revenue_data)
    IN  IF WindowedError(d, Window(days)).cls # ""
        THEN Raise(WindowedError(d, Window(days)).cls, WindowedError(d, Window(days)).msg)
        ELSE IF revenue_data = <<>>
        THEN Ret([msg |-> "no_revenue_data", days |-> days])
        ELSE Ret([msg |-> "revenue_analysis", days |-> days, group_by |-> group_by,
                  total_revenue |-> totals.total_revenue,
                  total_orders |-> totals.total_orders,
                  avg_order_value |-> totals.avg_order_value,
                  periods_analyzed |-> Len(revenue_data),
                  periods |-> [i \in 1..Len(revenue_data) |->
                      [period |-> revenue_data[i].period, orders |-> revenue_data[i].orders,
                       revenue |-> revenue_data[i].revenue,
                       avg_order |-> revenue_data[i].avg_order]]])

get_revenue_analysis(args, d, t) ==
    Finally(RevenueBody(Get(args, "days", PyInt(30)), Get(args, "group_by", PyStr("day")), d, t),
            d, 1)

----------------------------------------------------------------------------
(* get_customer_analysis *)

\* The branch for one customer (customer_name truthy)
CustomerBody(customer_name, days, d, t) ==
    LET orders == OrderByCreatedDesc(
                      SelectSeq(WindowRows(d, Window(days), t),
                                LAMBDA o : Like(o.customer_name, customer_name.cs)))
        shown == Limit(orders, CustomerOrdersCap)
    IN  IF WindowedError(d, Window(days)).cls # ""
        THEN Raise(WindowedError(d, Window(days)).cls, WindowedError(d, Window(days)).msg)
        ELSE IF orders = <<>>
        THEN Ret([msg |-> "no_orders_for_customer_in_window",
                  customer_name |-> customer_name, days |-> days])
        ELSE IF PyDiv(SumAmount(orders), Len(orders)).k = "raise"
        THEN Raise("ZeroDivisionError", "division by zero")
        ELSE IF ~IsDatetime(d)
        THEN Raise("AttributeError", "'str' object has no attribute 'strftime'")
        ELSE Ret([msg |-> "customer_analysis", customer_name |-> customer_name,
                  days |-> days, total_orders |-> Len(orders),
                  total_spent |-> SumAmount(orders),
                  avg_order |-> PyDiv(SumAmount(orders), Len(orders)).v,
                  phone |-> orders[1].customer_phone,
                  address |-> orders[1].customer_address,
                  recent |-> [i \in 1..Len(shown) |->
                      [id |-> shown[i].id, total_amount |-> shown[i].total_amount,
                       status |-> shown[i].status, date |-> shown[i].created_at]]])

\* The branch for all customers.  The overview divides the orders of the
\* window by its distinct customers.  MAX(created_at) has no declared type,
\* so last_order arrives as text and last_order.strftime raises as soon as
\* there is a customer to list.
AllCustomersBody(days, d, t) ==
    LET customers == Limit(OrderGroups(
                         GroupBy(WindowRows(d, Window(days), t), "customer"),
                         "revenue", 0 - 1), TopCustomersCap)
    IN  IF WindowedError(d, Window(days)).cls # ""
        THEN [out |-> Raise(WindowedError(d, Window(days)).cls,
                            WindowedError(d, Window(days)).msg), stmts |-> 1]
        ELSE IF customers = <<>>
        THEN [out |-> Ret([msg |-> "no_customer_data", days |-> days]), stmts |-> 1]
        ELSE IF PyDiv(10 * Len(WindowRows(d, Window(days), t)),
                      Len(GroupBy(WindowRows(d, Window(days), t), "customer"))).k = "raise"
        THEN [out |-> Raise("ZeroDivisionError", "division by zero"), stmts |-> 2]
        ELSE [out |-> Raise("AttributeError", "'str' object has no attribute 'strftime'"),
              stmts |-> 2]

get_customer_analysis(args, d, t) ==
    LET days == Get(args, "days", PyInt(30))
        customer_name == Get(args, "customer_name", PyNone)
    IN  IF Truthy(customer_name)
        THEN Finally(CustomerBody(customer_name, days, d, t), d, 1)
        ELSE Finally(AllCustomersBody(days, d, t).out, d, AllCustomersBody(days, d, t).stmts)


----------------------------------------------------------------------------
(* get_daily_statistics and get_date_range_statistics *)

\* datetime.strptime(v, '%Y-%m-%d'): "ok", or the exception class raised
\* (ValueError for a str that is no date, TypeError for a non-str)
Strptime(v) ==
    IF v.t # "str" THEN "TypeError"
    ELSE IF "iso" \in DOMAIN v THEN "ok"
    ELSE "ValueError"

\* GROUP BY strftime('%H', created_at) ORDER BY hour
HourlyData(rows) ==
    LET groups == OrderGroups(GroupBy(rows, "hour"),
                              "period", 1)
    IN  [i \in 1..Len(groups) |->
            [hour |-> groups[i].period, orders |-> groups[i].orders,
             revenue |-> groups[i].revenue]]

\* The values of the column f in rows, for MIN(f) and MAX(f)
FieldValues(rows, f) == {rows[i][f] : i \in 1..Len(rows)}

DailyBody(date, d) ==
    LET rows == SelectSeq(d.order, LAMBDA o : DateOf(o.created_at) = DateKey(date))
    IN  IF OrderStatementError(d, TRUE) # ""
        THEN [out |-> Raise("OperationalError", OrderStatementError(d, TRUE)), stmts |-> 1]
        ELSE IF Len(rows) = 0
        THEN [out |-> Ret([msg |-> "no_orders_for_date", date |-> date]), stmts |-> 1]
        ELSE [out |-> Ret([msg |-> "daily_statistics", date |-> date,
                  total_orders |-> Len(rows), total_revenue |-> SumAmount(rows),
                  avg_order_value |-> Div(SumAmount(rows), Len(rows)),
                  min_order |-> Min(FieldValues(rows, "total_amount")), max_order |-> Max(FieldValues(rows, "total_amount")),
                  first_order |-> HourOf(Min(FieldValues(rows, "created_at"))),
                  last_order |-> HourOf(Max(FieldValues(rows, "created_at"))),
                  hourly |-> HourlyData(rows)]),
              stmts |-> 2]

\* A mutant of get_daily_statistics: date_str = args.get("date")
DailyStatisticsDateOptional(args, d) ==
    IF Strptime(Get(args, "date", PyNone)) = "TypeError"
    THEN NoConn(Raise("TypeError", "strptime() argument 1 must be str"), d)
    ELSE IF Strptime(args.date) = "ValueError"
    THEN NoConn(Ret([msg |-> "invalid_date_format"]), d)
    ELSE Finally(DailyBody(args.date, d).out, d, DailyBody(args.date, d).stmts)

get_daily_statistics(args, d) ==
    IF "date" \notin DOMAIN args THEN NoConn(Raise("KeyError", "'date'"), d)
    ELSE IF Strptime(args.date) = "TypeError"
    THEN NoConn(Raise("TypeError", "strptime() argument 1 must be str"), d)
    ELSE IF Strptime(args.date) = "ValueError"
    THEN NoConn(Ret([msg |-> "invalid_date_format"]), d)
    ELSE Finally(DailyBody(args.date, d).out, d, DailyBody(args.date, d).stmts)

\* A mutant of DailyBreakdown: LIMIT 7, a week of days
DailyBreakdownWeek(rows) ==
    LET groups == Limit(OrderGroups(GroupBy(rows, "day"),
                                    "period", 0 - 1), 7)
    IN  [i \in 1..Len(groups) |->
            [order_date |-> groups[i].period, day_name |-> groups[i].period % 7,
             orders |-> groups[i].orders, revenue |-> groups[i].revenue,
             avg_order |-> groups[i].avg_order]]

\* The daily breakdown statement: one row per day of the range with
\* orders, most recent day first, at most DayGroupCap rows
DailyBreakdown(rows) ==
    LET groups == Limit(OrderGroups(GroupBy(rows, "day"),
                                    "period", 0 - 1), DayGroupCap)
    IN  [i \in 1..Len(groups) |->
            [order_date |-> groups[i].period, day_name |-> groups[i].period % 7,
             orders |-> groups[i].orders, revenue |-> groups[i].revenue,
             avg_order |-> groups[i].avg_order]]

\* The overall statement: COUNT(*), SUM, COUNT(DISTINCT DATE(created_at)),
\* COUNT(DISTINCT customer_name) over the whole range
OverallStatistics(rows) ==
    [total_orders |-> Len(rows), total_revenue |-> SumAmount(rows),
     unique_days |-> Cardinality({DateOf(rows[i].created_at) : i \in 1..Len(rows)}),
     unique_customers |-> Cardinality({rows[i].customer_name : i \in 1..Len(rows)})]

DateRangeBody(start_date, end_date, d) ==
    LET rows == RangeRows(d, start_date, end_date)
        overall == OverallStatistics(rows)
    IN  IF OrderStatementError(d, TRUE) # ""
        THEN [out |-> Raise("OperationalError", OrderStatementError(d, TRUE)), stmts |-> 1]
        ELSE IF Len(rows) = 0
        THEN [out |-> Ret([msg |-> "no_orders_between", start_date |-> start_date,
                           end_date |-> end_date]), stmts |-> 1]
        ELSE IF PyDiv(overall.total_orders, overall.unique_days).k = "raise"
        THEN [out |-> Raise("ZeroDivisionError", "division by zero"), stmts |-> 2]
        ELSE [out |-> Ret([msg |-> "date_range_statistics", start_date |-> start_date,
                  end_date |-> end_date,
                  total_orders |-> overall.total_orders,
                  total_revenue |-> overall.total_revenue,
                  avg_order_value |-> Div(SumAmount(rows), Len(rows)),
                  min_order |-> Min(FieldValues(rows, "total_amount")), max_order |-> Max(FieldValues(rows, "total_amount")),
                  unique_days |-> overall.unique_days,
                  unique_customers |-> overall.unique_customers,
                  orders_per_day |-> PyDiv(10 * overall.total_orders, overall.unique_days).v,
                  revenue_per_day |-> PyDiv(overall.total_revenue, overall.unique_days).v,
                  daily_breakdown |-> DailyBreakdown(rows)]),
              stmts |-> 2]

get_date_range_statistics(args, d) ==
    IF "start_date" \notin DOMAIN args THEN NoConn(Raise("KeyError", "'start_date'"), d)
    ELSE IF "end_date" \notin DOMAIN args THEN NoConn(Raise("KeyError", "'end_date'"), d)
    ELSE IF Strptime(args.start_date) = "TypeError"
            \/ (Strptime(args.start_date) = "ok" /\ Strptime(args.end_date) = "TypeError")
    THEN NoConn(Raise("TypeError", "strptime() argument 1 must be str"), d)
    ELSE IF Strptime(args.start_date) = "ValueError" \/ Strptime(args.end_date) = "ValueError"
    THEN NoConn(Ret([msg |-> "invalid_date_format_both"]), d)
    ELSE Finally(DateRangeBody(args.start_date, args.end_date, d).out, d,
                 DateRangeBody(args.start_date, args.end_date, d).stmts)

----------------------------------------------------------------------------
(* The dispatcher *)

\* The if / elif chain of handle_call_tool
Handler(name, args, d, t) ==
    CASE name = "get_order_details" -> get_order_details(args, d)
      [] name = "get_order_summary" -> get_order_summary(args, d, t)
      [] name = "search_orders_by_date" -> search_orders_by_date(args, d)
      [] name = "get_product_details" -> get_product_details(args, d)
      [] name = "get_revenue_analysis" -> get_revenue_analysis(args, d, t)
      [] name = "get_customer_analysis" -> get_customer_analysis(args, d, t)
      [] name = "get_daily_statistics" -> get_daily_statistics(args, d)
      [] name = "get_date_range_statistics" -> get_date_range_statistics(args, d)
      [] name = "execute_custom_query" -> execute_custom_query(args, d)
      [] OTHER -> NoConn(Ret([msg |-> "unknown_tool", name |-> name]), d)

\* A mutant of Caught: except sqlite3.Error
CaughtStoreErrorsOnly(cls) == cls \in StoreErrors

\* except Exception
Caught(cls) == cls \in ExceptionClasses

\* handle_call_tool on the outcome h of the handler: the response (a list of
\* TextContent), or the exception that leaves the dispatcher
Respond(name, h) ==
    [resp |-> IF h.out.k = "return" THEN <<h.out.text>>
              ELSE IF Caught(h.out.cls)
              THEN << [msg |-> "error_executing", name |-> name, error |-> h.out.msg] >>
              ELSE <<>>,
     propagated |-> h.out.k = "raise" /\ ~Caught(h.out.cls),
     raised |-> IF h.out.k = "raise" THEN h.out.cls ELSE "",
     opened |-> h.opened, closed |-> h.closed, db |-> h.db, stmts |-> h.stmts]

handle_call_tool(name, args, d, t) == Respond(name, Handler(name, args, d, t))

----------------------------------------------------------------------------
(* Tool calls the transport delivers *)

NoArgs == [k \in {} |-> PyNone]

\* The inputSchema of a tool: the type of each declared parameter (as the
\* Python type of a conforming value), the required parameters, the declared
\* defaults and the declared enumerations
Schema(name) ==
    CASE name = "get_order_details" ->
            [properties |-> [order_id |-> "int", customer_name |-> "str"],
             required |-> {}, defaults |-> NoArgs, enum |-> NoArgs]
      [] name = "get_order_summary" ->
            [properties |-> [days |-> "int"],
             required |-> {}, defaults |-> [days |-> PyInt(30)], enum |-> NoArgs]
      [] name \in {"search_orders_by_date", "get_date_range_statistics"} ->
            [properties |-> [start_date |-> "str", end_date |-> "str"],
             required |-> {"start_date", "end_date"}, defaults |-> NoArgs, enum |-> NoArgs]
      [] name = "get_product_details" ->
            [properties |-> [product_id |-> "int"],
             required |-> {}, defaults |-> NoArgs, enum |-> NoArgs]
      [] name = "get_revenue_analysis" ->
            [properties |-> [days |-> "int", group_by |-> "str"],
             required |-> {},
             defaults |-> [days |-> PyInt(30), group_by |-> PyStr("day")],
             enum |-> [group_by |-> {PyStr("day"), PyStr("week"), PyStr("month")}]]
      [] name = "get_customer_analysis" ->
            [properties |-> [customer_name |-> "str", days |-> "int"],
             required |-> {}, defaults |-> [days |-> PyInt(30)], enum |-> NoArgs]
      [] name = "get_daily_statistics" ->
            [properties |-> [date |-> "str"],
             required |-> {"date"}, defaults |-> NoArgs, enum |-> NoArgs]
      [] name = "execute_custom_query" ->
            [properties |-> [query |-> "str"],
             required |-> {"query"}, defaults |-> NoArgs, enum |-> NoArgs]
      [] OTHER ->
            [properties |-> NoArgs, required |-> {}, defaults |-> NoArgs, enum |-> NoArgs]

\* A mapping with a key that no schema declares next to its own keys
WithExtra(a) ==
    [k \in DOMAIN a \cup {"limit"} |-> IF k \in DOMAIN a THEN a[k] ELSE PyInt(1)]

\* The name pattern ann; <<"z","e","d">> is a pattern no customer matches
P_ann == <<"a","n","n">>

OrderDetailsArgs ==
    {NoArgs, [customer_name |-> PyText(P_ann)], [customer_name |-> PyText(<<"z","e","d">>)],
     [order_id |-> PyInt(0), customer_name |-> PyText(P_ann)]}
    \cup {[order_id |-> PyInt(i)] : i \in {0, 1, 3, 99}}
    \cup {WithExtra([order_id |-> PyInt(1)]), WithExtra([customer_name |-> PyText(P_ann)])}

DaysValues ==
    {PyInt(0), PyInt(1), PyInt(2), PyInt(30), PyInt(0 - 1),
     PyStr("7"), PyStr(S_tautology), PyStr(S_stacked), PyStr("abc")}

OrderSummaryArgs ==
    {NoArgs, WithExtra(NoArgs), WithExtra([days |-> PyInt(1)])}
    \cup {[days |-> v] : v \in DaysValues}

DateValues == {PyDate(3), PyDate(10), PyStr(S_slashes), PyStr("tomorrow")}

DateRangeArgs ==
    {[start_date |-> a, end_date |-> b] : a \in DateValues, b \in DateValues}
    \cup {NoArgs, [start_date |-> PyDate(3)], [end_date |-> PyDate(10)],
          [start_date |-> PyInt(3), end_date |-> PyDate(10)],
          WithExtra([start_date |-> PyDate(3), end_date |-> PyDate(10)]),
          WithExtra([start_date |-> PyDate(3)])}

ProductArgs ==
    {NoArgs, WithExtra(NoArgs), WithExtra([product_id |-> PyInt(1)])}
    \cup {[product_id |-> PyInt(i)] : i \in {0, 1, 2, 10, 99}}

RevenueArgs ==
    {[days |-> v, group_by |-> PyStr(g)] :
        v \in {PyInt(0), PyInt(1), PyInt(30), PyStr(S_tautology), PyStr(S_stacked)},
        g \in {"day", "week", "month", "year"}}
    \cup {NoArgs, [days |-> PyInt(1)], [group_by |-> PyStr("week")],
          WithExtra([days |-> PyInt(30), group_by |-> PyStr("week")])}

CustomerArgs ==
    {NoArgs, [days |-> PyInt(1)], [days |-> PyInt(0 - 1)],
     [customer_name |-> PyText(P_ann)], [customer_name |-> PyText(<<"z","e","d">>)],
     [customer_name |-> PyText(P_ann), days |-> PyInt(1)],
     [customer_name |-> PyText(P_ann), days |-> PyStr(S_stacked)],
     WithExtra(NoArgs), WithExtra([customer_name |-> PyText(P_ann)])}

DailyArgs ==
    {NoArgs, [date |-> PyInt(5)], WithExtra([date |-> PyDate(10)])}
    \cup {[date |-> v] : v \in DateValues \cup {PyDate(11)}}


\* The large store: ranges over its days, windows over its orders
BigDateValues ==
    {PyDate(0), PyDate(4), PyDate(BigDays - 9), PyDate(BigDays - 2), PyDate(BigDays - 1)}

BigRangeArgs == {[start_date |-> a, end_date |-> b] : a \in BigDateValues, b \in BigDateValues}

BigRevenueArgs ==
    {[days |-> PyInt(n), group_by |-> PyStr(g)] :
        n \in {1, 7, BigDays + 5}, g \in {"day", "week", "month"}}
    \cup {NoArgs}

----------------------------------------------------------------------------
(* State machine *)

NoCall ==
    [name |-> "", args |-> NoArgs, at |-> 0, resp |-> <<>>, propagated |-> FALSE,
     raised |-> "", opened |-> 0, closed |-> 0, stmts |-> 0]

Init ==
    /\ db \in {SmallStore, SmallStoreText, DumpStore}
    /\ now = Now0
    /\ open_conns = 0
    /\ last = NoCall
    /\ pending = {}

InitBig ==
    /\ db = BigStore
    /\ now = BigNow0
    /\ open_conns = 0
    /\ last = NoCall
    /\ pending = {}

\* One call_tool request served to completion
Call(name, args) ==
    \E r \in {handle_call_tool(name, args, db, now)} :
        /\ db' = r.db
        /\ open_conns' = open_conns + r.opened - r.closed
        /\ last' = [name |-> name, args |-> args, at |-> now, resp |-> r.resp,
                    propagated |-> r.propagated, raised |-> r.raised,
                    opened |-> r.opened, closed |-> r.closed, stmts |-> r.stmts]
        /\ UNCHANGED <<now, pending>>

GetOrderDetails == \E a \in OrderDetailsArgs : Call("get_order_details", a)
GetOrderSummary == \E a \in OrderSummaryArgs : Call("get_order_summary", a)
SearchOrdersByDate == \E a \in DateRangeArgs : Call("search_orders_by_date", a)
GetProductDetails == \E a \in ProductArgs : Call("get_product_details", a)
GetRevenueAnalysis == \E a \in RevenueArgs : Call("get_revenue_analysis", a)
GetCustomerAnalysis == \E a \in CustomerArgs : Call("get_customer_analysis", a)
GetDailyStatistics == \E a \in DailyArgs : Call("get_daily_statistics", a)
GetDateRangeStatistics == \E a \in DateRangeArgs : Call("get_date_range_statistics", a)
ExecuteCustomQuery == \E a \in QueryArgs : Call("execute_custom_query", a)
UnknownTool == \E n \in {"drop_database", ""} : Call(n, NoArgs)

\* Time passes between calls: a day
Tick ==
    /\ now < Now0 + 24 * MaxTicks
    /\ now' = now + 24
    /\ UNCHANGED <<db, open_conns, last, pending>>

Next ==
    \/ GetOrderDetails
    \/ GetOrderSummary
    \/ SearchOrdersByDate
    \/ GetProductDetails
    \/ GetRevenueAnalysis
    \/ GetCustomerAnalysis
    \/ GetDailyStatistics
    \/ GetDateRangeStatistics
    \/ ExecuteCustomQuery
    \/ UnknownTool
    \/ Tick

Spec == Init /\ [][Next]_vars

BigSearchOrdersByDate == \E a \in BigRangeArgs : Call("search_orders_by_date", a)
BigGetDateRangeStatistics == \E a \in BigRangeArgs : Call("get_date_range_statistics", a)
BigGetRevenueAnalysis == \E a \in BigRevenueArgs : Call("get_revenue_analysis", a)

BigTick ==
    /\ now < BigNow0 + 24 * MaxTicks
    /\ now' = now + 24
    /\ UNCHANGED <<db, open_conns, last, pending>>

NextBig ==
    \/ BigSearchOrdersByDate
    \/ BigGetDateRangeStatistics
    \/ BigGetRevenueAnalysis
    \/ BigTick

\* The server on a store that has grown past the caps of the itemized
\* sections: more than 30 days with orders, more than 50 orders
SpecBig == InitBig /\ [][NextBig]_vars

\* The server on a store whose product table has one row fewer than, as
\* many rows as, and one row more than an ad-hoc report shows
InitMany ==
    /\ db \in {[SmallStore EXCEPT !.product =
                     [i \in 1..n |-> Product(i, "Thunder Bolt", 399, 100)]] :
                n \in {MaxRows - 1, MaxRows, MaxRows + 1}}
    /\ now = Now0
    /\ open_conns = 0
    /\ last = NoCall
    /\ pending = {}

NextMany ==
    \/ ExecuteCustomQuery
    \/ GetProductDetails
    \/ Tick

SpecMany == InitMany /\ [][NextMany]_vars

\* Requests in flight.  The transport may deliver a request while earlier
\* ones are not yet answered; every request is handled by a call of
\* handle_call_tool of its own.  The handlers are coroutines without an
\* await inside (sqlite3 is synchronous), so a call that has started runs to
\* its return before another one starts: the calls in flight are served
\* one at a time, in any order, and time may pass in between.
\* A request keeps the store it arrived on (store).
Dispatch ==
    \E i \in 1..MaxPending :
        \E call \in {<<"get_order_summary", [days |-> PyInt(1)]>>,
                     <<"get_order_details", [order_id |-> PyInt(1)]>>,
                     <<"get_product_details", [product_id |-> PyInt(2)]>>,
                     <<"get_revenue_analysis", [days |-> PyStr(S_stacked), group_by |-> PyStr("day")]>>,
                     <<"execute_custom_query", [query |-> PyText(Q_select_name)]>>,
                     <<"execute_custom_query", [query |-> PyText(Q_stack_replace)]>>,
                     <<"execute_custom_query", [query |-> PyText(Q_drop_lower)]>>} :
            /\ i \notin {c.id : c \in pending}
            /\ pending' = pending \cup {[id |-> i, name |-> call[1], args |-> call[2],
                                         store |-> db]}
            /\ UNCHANGED <<db, now, open_conns, last>>

\* A mutant of Serve: one connection kept on the server object and shared
\* by the calls; the finally clause of the first call that used it closed it
ServeOnSharedConnection ==
    \E c \in pending :
        \E r \in {handle_call_tool(c.name, c.args, db, now)} :
            /\ db' = r.db
            /\ open_conns' = open_conns + r.opened - r.closed
            /\ last' = [name |-> c.name, args |-> c.args, at |-> now,
                        resp |-> IF last.closed > 0 /\ r.opened > 0
                                 THEN << [msg |-> "error_executing", name |-> c.name,
                                          error |-> "Cannot operate on a closed database."] >>
                                 ELSE r.resp,
                        propagated |-> r.propagated, raised |-> r.raised,
                        opened |-> r.opened, closed |-> r.closed, stmts |-> r.stmts]
            /\ pending' = pending \ {c}
            /\ UNCHANGED now

\* One of the requests in flight served to completion
Serve ==
    \E c \in pending :
        \E r \in {handle_call_tool(c.name, c.args, db, now)} :
            /\ db' = r.db
            /\ open_conns' = open_conns + r.opened - r.closed
            /\ last' = [name |-> c.name, args |-> c.args, at |-> now, resp |-> r.resp,
                        propagated |-> r.propagated, raised |-> r.raised,
                        opened |-> r.opened, closed |-> r.closed, stmts |-> r.stmts]
            /\ pending' = pending \ {c}
            /\ UNCHANGED now

NextConcurrent ==
    \/ Dispatch
    \/ Serve
    \/ Tick

SpecConcurrent == Init /\ [][NextConcurrent]_vars

----------------------------------------------------------------------------
(* Properties of the served calls *)

\* A call has been served
Served == last.name # ""

\* The last call returned one text whose fixed part is m
Returned(m) == Served /\ Len(last.resp) = 1 /\ last.resp[1].msg = m

\* The last call is execute_custom_query on a str
AdhocCall ==
    /\ last.name = "execute_custom_query"
    /\ "query" \in DOMAIN last.args
    /\ last.args.query.t = "str"

\* The mutating keywords
MutatingKeywords ==
    {KW_DELETE, KW_DROP, KW_INSERT, KW_UPDATE, KW_ALTER, KW_CREATE, KW_TRUNCATE}

\* The text does not begin with SELECT once trimmed and upper-cased, or holds
\* a mutating keyword in some letter case at some position
MustReject(cs) ==
    \/ ~StartsWith(Upper(Strip(cs)), KW_SELECT)
    \/ \E kw \in MutatingKeywords : Contains(Upper(cs), kw)

\* C1: execute_custom_query answers a text that, trimmed and with case
\* ignored, does not begin with SELECT, or that holds one of DELETE, DROP,
\* INSERT, UPDATE, ALTER, CREATE, TRUNCATE in any letter case at any
\* position, with a rejection message, without opening a connection and
\* without handing a statement to the store.
C1_UnsafeQueryRejected ==
    (AdhocCall /\ MustReject(last.args.query.cs)) =>
        /\ Len(last.resp) = 1
        /\ last.resp[1].msg \in {"only_select", "dangerous_keyword"}
        /\ last.opened = 0
        /\ last.stmts = 0

\* C1 witness: a query that begins with SELECT and holds a mutating keyword
\* only in lower or mixed case, after the first statement, was rejected
C1_LowerCaseKeywordRejected ==
    /\ AdhocCall
    /\ StartsWith(Upper(Strip(last.args.query.cs)), KW_SELECT)
    /\ \A kw \in MutatingKeywords : ~Contains(last.args.query.cs, kw)
    /\ \E kw \in MutatingKeywords : Contains(Upper(last.args.query.cs), kw)
    /\ Returned("dangerous_keyword")
    /\ last.stmts = 0

\* C2: between calls no connection is open: every connection a call
\* acquired was closed before the call returned, whatever its exit path.
C2_NoOpenConnection == open_conns = 0

\* C2 witness: a call acquired a connection, the store raised, and no
\* connection is left open
C2_ClosedAfterStoreError ==
    /\ Served
    /\ last.opened = 1
    /\ last.raised \in StoreErrors
    /\ open_conns = 0

\* C3: every call, of a known or unknown tool with any argument mapping,
\* is answered with a single text and no exception leaves the dispatcher;
\* a call that failed leaves the store and the connections as they were,
\* so the next call is served as if the failed one had not happened.
C3_SingleTextNeverPropagates ==
    /\ [](Served => (Len(last.resp) = 1 /\ ~last.propagated))
    /\ [][last'.raised # "" => (db' = db /\ open_conns' = open_conns)]_vars

\* C3 witness: an exception that is no store error (a missing argument, a
\* value of the wrong type) was raised and answered with one text
C3_ArgumentErrorAnswered ==
    /\ Served
    /\ last.raised \in ExceptionClasses \ StoreErrors
    /\ Returned("error_executing")
    /\ ~last.propagated

\* The messages of the store's exceptions
StoreMessages ==
    {"no such table: order", "no such table: product", "no such column: total_amount",
     "no such table", "no such column", "syntax error",
     "You can only execute one statement at a time."}

\* The statement of the last execute_custom_query call reached the store
\* and the store raised on it
AdhocStoreRaised ==
    /\ AdhocCall
    /\ last.stmts = 1
    /\ AdhocExecute(db, Strip(last.args.query.cs)).k = "raise"

\* The text of the last call is the dispatcher's error text: it names the
\* tool and carries a message of the store
DispatcherErrorText ==
    /\ Returned("error_executing")
    /\ last.resp[1].name = last.name
    /\ last.resp[1].error \in StoreMessages

\* C4 as stated: whenever the store raises in a tool, the ad-hoc query tool
\* included, the text returned is the dispatcher's error text.
C4_StoreErrorNamesTool ==
    (Served /\ (last.raised \in StoreErrors \/ AdhocStoreRaised)) => DispatcherErrorText

\* C4: a store exception that reaches the dispatcher is answered with the
\* dispatcher's error text, naming the tool and carrying the store's
\* message; a store exception on the statement of execute_custom_query
\* does not reach the dispatcher: the handler answers with its own query
\* error text, which carries the store's message and does not name the tool.
C4_StoreErrorText ==
    /\ (Served /\ last.raised \in StoreErrors) => DispatcherErrorText
    /\ AdhocStoreRaised =>
        /\ last.raised = ""
        /\ last.resp = << [msg |-> "query_error",
                           error |-> AdhocExecute(db, Strip(last.args.query.cs)).msg] >>
        /\ last.resp[1].error \in StoreMessages

\* C4 witness: malformed SQL given to execute_custom_query made the store
\* raise and the handler answered with the query error text
C4_MalformedAdhocQuery ==
    /\ AdhocStoreRaised
    /\ Returned("query_error")
    /\ last.resp[1].error = "syntax error"

\* C5: no step changes the store.
C5_StoreNeverWritten == [][db' = db]_vars

\* C5 witness: a text that passes the safety filter and holds a second,
\* writing statement was handed to the store, and the tables are whole
C5_StackedWritePassedFilter ==
    /\ AdhocCall
    /\ last.args.query.cs = Q_stack_replace
    /\ last.stmts = 1
    /\ db.tables = {"product", "order"}
    /\ db.product = SeedProducts
    /\ db.order = SmallOrders

\* The tools whose statements read datetime('now')
WindowedTools == {"get_order_summary", "get_revenue_analysis", "get_customer_analysis"}

\* The step serves again the call served last, on the same store
Repeated ==
    /\ Served
    /\ last'.name = last.name
    /\ last'.args = last.args
    /\ db' = db

\* The orders created at or after the start of a window of n days that
\* ends at clock t
CreatedSince(d, n, t) == {i \in 1..Len(d.order) : d.order[i].created_at >= t - 24 * n}

\* The windows of the calls at clocks t1 and t2 hold the same orders
SameWindow(d, days, t1, t2) ==
    Window(days).k = "window" =>
        CreatedSince(d, Window(days).days, t1) = CreatedSince(d, Window(days).days, t2)

RangeOfLastCall == RangeRows(db, last.args.start_date, last.args.end_date)

\* C7 as stated: the order count, revenue and average of a
\* search_orders_by_date report are those of all the orders created in
\* [start_date, end_date].
C7_SearchTotalsOverFullRange ==
    (last.name = "search_orders_by_date" /\ Returned("orders_in_range")) =>
        /\ last.resp[1].total_orders = Len(RangeOfLastCall)
        /\ last.resp[1].total_revenue = SumAmount(RangeOfLastCall)
        /\ last.resp[1].avg_order = Div(SumAmount(RangeOfLastCall), Len(RangeOfLastCall))

\* C7 witness: a search whose range holds more orders than are listed
C7_MoreMatchThanListed ==
    /\ last.name = "search_orders_by_date"
    /\ Returned("orders_in_range")
    /\ Len(RangeOfLastCall) > SearchCap
    /\ Len(last.resp[1].orders) = SearchCap

\* The days of the range of the last call that have orders
ActiveDays == {DateOf(RangeOfLastCall[i].created_at) : i \in 1..Len(RangeOfLastCall)}

\* The per-day rows of the last report add up to its overall figures
BreakdownAddsUp ==
    /\ SumField(last.resp[1].daily_breakdown, "orders") = last.resp[1].total_orders
    /\ SumField(last.resp[1].daily_breakdown, "revenue") = last.resp[1].total_revenue

\* C8 as stated: in every get_date_range_statistics report the per-day
\* order counts add up to the overall order count and the per-day revenues
\* to the overall revenue.
C8_BreakdownAddsUpAlways ==
    (last.name = "get_date_range_statistics" /\ Returned("date_range_statistics")) =>
        BreakdownAddsUp

\* C8: in a get_date_range_statistics report on a range with at most 30
\* days that have orders, the per-day order counts add up to the overall
\* order count and the per-day revenues to the overall revenue.
C8_BreakdownAddsUpWithinCap ==
    (/\ last.name = "get_date_range_statistics"
     /\ Returned("date_range_statistics")
     /\ Cardinality(ActiveDays) <= DayGroupCap) =>
        /\ BreakdownAddsUp
        /\ last.resp[1].total_orders = Len(RangeOfLastCall)
        /\ last.resp[1].total_revenue = SumAmount(RangeOfLastCall)

\* C8 witness: a report on a range of more than a week and at most 30 days
\* with orders, one row per day
C8_ManyDaysWithinCap ==
    /\ last.name = "get_date_range_statistics"
    /\ Returned("date_range_statistics")
    /\ Cardinality(ActiveDays) > 7
    /\ Cardinality(ActiveDays) <= DayGroupCap
    /\ Len(last.resp[1].daily_breakdown) = Cardinality(ActiveDays)

\* C9: in every get_revenue_analysis report, for each grouping, the total
\* revenue is the sum of the revenues of the listed periods and the total
\* orders the sum of their order counts.
C9_RevenueTotalsAreSumsOfListed ==
    (last.name = "get_revenue_analysis" /\ Returned("revenue_analysis")) =>
        /\ last.resp[1].total_revenue = SumField(last.resp[1].periods, "revenue")
        /\ last.resp[1].total_orders = SumField(last.resp[1].periods, "orders")
        /\ last.resp[1].periods_analyzed = Len(last.resp[1].periods)

\* C9 witness: a report grouped by day whose window holds more days with
\* orders than the 30 listed
C9_DayGroupsCapped ==
    /\ last.name = "get_revenue_analysis"
    /\ Returned("revenue_analysis")
    /\ last.resp[1].group_by = PyStr("day")
    /\ Len(last.resp[1].periods) = DayGroupCap
    /\ last.resp[1].total_orders < Len(db.order)

\* The single-order report of the order o
ReportsOrder(text, o) ==
    /\ text.msg = "order_details"
    /\ text.id = o.id
    /\ text.total_amount = o.total_amount
    /\ text.items = o.items

\* C10 as stated: get_order_details called with the identifier of an order
\* of the store, 0 included, returns the report of that one order, with its
\* stored total and line items.
C10_EveryStoredOrderFound ==
    \A i \in 1..Len(db.order) :
        (/\ last.name = "get_order_details"
         /\ last.args = [order_id |-> PyInt(db.order[i].id)]
         /\ OrderStatementError(db, TRUE) = "") =>
            /\ Len(last.resp) = 1
            /\ ReportsOrder(last.resp[1], db.order[i])

\* C10 witness: the order with identifier 0 is in the store and was asked for
C10_OrderZeroRequested ==
    /\ last.name = "get_order_details"
    /\ last.args = [order_id |-> PyInt(0)]
    /\ \E i \in 1..Len(db.order) : db.order[i].id = 0
    /\ OrderStatementError(db, TRUE) = ""

\* The parameters the schema of a tool lists as required
RequiredKeys(name) == Schema(name).required

\* The required parameters the argument mapping of the last call lacks
MissingKeys == RequiredKeys(last.name) \ DOMAIN last.args

\* str(KeyError(k)): the key in quotes
KeyErrorText(k) ==
    CASE k = "start_date" -> "'start_date'"
      [] k = "end_date" -> "'end_date'"
      [] k = "date" -> "'date'"
      [] k = "query" -> "'query'"

\* C11: a call of search_orders_by_date, get_daily_statistics,
\* get_date_range_statistics or execute_custom_query whose argument mapping
\* lacks a required key fails: the single text returned is the error text,
\* it names the tool and an absent parameter, no statement was executed and
\* no report is returned.
C11_MissingRequiredKeyNamed ==
    (Served /\ MissingKeys # {}) =>
        /\ Returned("error_executing")
        /\ last.raised = "KeyError"
        /\ last.resp[1].name = last.name
        /\ \E k \in MissingKeys : last.resp[1].error = KeyErrorText(k)
        /\ last.stmts = 0

\* C11 witness: get_date_range_statistics was called with start_date only
\* and the error names end_date
C11_EndDateMissing ==
    /\ last.name = "get_date_range_statistics"
    /\ DOMAIN last.args = {"start_date"}
    /\ Returned("error_executing")
    /\ last.resp[1].error = "'end_date'"

\* The values the schema of get_revenue_analysis allows for group_by
GroupByEnum == Schema("get_revenue_analysis").enum.group_by

\* The last call is get_revenue_analysis with a group_by outside the enum
UnknownGrouping ==
    /\ last.name = "get_revenue_analysis"
    /\ "group_by" \in DOMAIN last.args
    /\ last.args.group_by \notin GroupByEnum

\* C12 as stated: a get_revenue_analysis call whose group_by is not one of
\* day, week, month fails with an error text and produces no revenue report.
C12_UnknownGroupingRejected ==
    UnknownGrouping =>
        /\ Returned("error_executing")
        /\ last.stmts = 0

\* C12 witness: group_by = "year" was answered with a revenue report, the
\* one the same call returns for group_by = "month"
C12_YearGroupedAsMonth ==
    /\ UnknownGrouping
    /\ last.args.group_by = PyStr("year")
    /\ Returned("revenue_analysis")
    /\ last.resp[1].periods =
          handle_call_tool(last.name, [last.args EXCEPT !.group_by = PyStr("month")],
                           db, last.at).resp[1].periods

\* The tools that take date parameters
DateTools == {"search_orders_by_date", "get_daily_statistics", "get_date_range_statistics"}

\* The last call is of a date tool, with every date parameter a str and one
\* of them a text that is no calendar date in YYYY-MM-DD
UnparsableDate ==
    /\ last.name \in DateTools
    /\ MissingKeys = {}
    /\ \A k \in RequiredKeys(last.name) : last.args[k].t = "str"
    /\ \E k \in RequiredKeys(last.name) : Strptime(last.args[k]) = "ValueError"

\* C13 as stated: for search_orders_by_date, get_daily_statistics and
\* get_date_range_statistics, a date argument that does not parse as a
\* calendar date in YYYY-MM-DD is answered with the invalid date format
\* message and no statement is run against the store.
C13_UnparsableDateRejected ==
    UnparsableDate =>
        /\ Len(last.resp) = 1
        /\ last.resp[1].msg \in {"invalid_date_format", "invalid_date_format_both"}
        /\ last.stmts = 0

\* C13 witness: search_orders_by_date with an end_date that is no date ran
\* its statement and returned a report listing orders
C13_SearchRanOnUnparsableDate ==
    /\ UnparsableDate
    /\ last.name = "search_orders_by_date"
    /\ last.stmts = 1
    /\ Returned("orders_in_range")
    /\ Len(last.resp[1].orders) > 0

\* The parameters the schema of a tool declares
DeclaredKeys(name) == DOMAIN Schema(name).properties

\* An argument of the last call has a value of another type than declared
WrongType ==
    \E k \in DeclaredKeys(last.name) \cap DOMAIN last.args :
        last.args[k].t # Schema(last.name).properties[k]

\* C14 as stated: a call with an argument whose value does not have the
\* declared type fails with an error text before any statement is built or
\* executed.
C14_WrongTypeRejectedBeforeQuery ==
    WrongType =>
        /\ Returned("error_executing")
        /\ last.stmts = 0

\* C14 witness: a str given as days was formatted into the statement of
\* get_revenue_analysis, which ran and reported every order of the store
C14_TextDaysReachedQuery ==
    /\ WrongType
    /\ last.name = "get_revenue_analysis"
    /\ last.args.days = PyStr(S_tautology)
    /\ last.stmts = 1
    /\ Returned("revenue_analysis")
    /\ last.resp[1].total_orders = Len(db.order)
    /\ Len(WindowRows(db, Window(PyInt(1)), last.at)) < Len(db.order)

\* The defaults the schema of a tool declares for its optional parameters
SchemaDefaults(name) == Schema(name).defaults

\* The argument mapping with every absent optional parameter that has a
\* declared default passed explicitly
WithDefaults(name, args) ==
    [k \in DOMAIN args \cup DOMAIN SchemaDefaults(name) |->
        IF k \in DOMAIN args THEN args[k] ELSE SchemaDefaults(name)[k]]

\* C15: a call of get_order_summary, get_revenue_analysis or
\* get_customer_analysis that omits days (and, for get_revenue_analysis,
\* group_by) returns the text of the call that passes days = 30 (group_by =
\* "day") explicitly, with the other arguments unchanged.
C15_AbsentEqualsDefault ==
    (last.name \in WindowedTools /\ WithDefaults(last.name, last.args) # last.args) =>
        last.resp = handle_call_tool(last.name, WithDefaults(last.name, last.args),
                                     db, last.at).resp

\* C15 witness: get_revenue_analysis called without arguments returned a
\* report on the orders of the last 30 days, grouped by day
C15_RevenueReportByDefault ==
    /\ last.name = "get_revenue_analysis"
    /\ last.args = NoArgs
    /\ Returned("revenue_analysis")
    /\ last.resp[1].days = PyInt(30)
    /\ last.resp[1].group_by = PyStr("day")
    /\ last.resp[1].total_orders = Len(WindowRows(db, Window(PyInt(30)), last.at))

\* The keys of the last call's argument mapping that the schema of its tool
\* does not declare
UndeclaredKeys == DOMAIN last.args \ DeclaredKeys(last.name)

\* The argument mapping without the keys outside K
Restrict(args, K) == [k \in DOMAIN args \cap K |-> args[k]]

\* C16: a call whose argument mapping holds keys that the schema of the
\* tool does not declare returns the text of the call without those keys.
C16_UndeclaredKeysIgnored ==
    (Served /\ UndeclaredKeys # {}) =>
        last.resp = handle_call_tool(last.name,
                                     Restrict(last.args, DeclaredKeys(last.name)),
                                     db, last.at).resp

\* C16 witness: execute_custom_query was called with an undeclared key next
\* to query, and returned the rows of the query
C16_QueryWithUndeclaredKey ==
    /\ AdhocCall
    /\ UndeclaredKeys # {}
    /\ Returned("custom_query_results")

\* The last call returned the report of get_order_summary
SummaryReport == last.name = "get_order_summary" /\ Returned("order_summary")

\* The report r counts the orders W of the store d as its recent orders and
\* breaks exactly them down by status
SummaryCovers(r, d, W) ==
    /\ r.recent_count = Cardinality(W)
    /\ Len(r.status_breakdown) = Cardinality({d.order[i].status : i \in W})
    /\ \A j \in 1..Len(r.status_breakdown) :
          /\ r.status_breakdown[j].count > 0
          /\ r.status_breakdown[j].count =
                Cardinality({i \in W : d.order[i].status = r.status_breakdown[j].status})
    /\ SumField(r.status_breakdown, "count") = r.recent_count
    /\ W = {} => (r.daily_avg = 0 /\ r.status_breakdown = <<>>)

\* C17: in a get_order_summary report the all-time count is the number of
\* orders in the store; the recent count and the status breakdown cover
\* exactly the orders created within the last N days, the status counts
\* adding up to the recent count; when no order is that recent the recent
\* count is 0, the daily average 0.0 and the status breakdown empty.
C17_SummaryCountsWindow ==
    SummaryReport =>
        /\ last.resp[1].total_orders = Len(db.order)
        /\ SummaryCovers(last.resp[1], db,
                         CreatedSince(db, last.resp[1].days.i, last.at))

\* C17 witness: a summary over a window of at least a day, on a store whose
\* orders are all older than the window
C17_AllOrdersOlderThanWindow ==
    /\ SummaryReport
    /\ last.resp[1].days.i >= 1
    /\ CreatedSince(db, last.resp[1].days.i, last.at) = {}
    /\ last.resp[1].total_orders = Len(SmallOrders)
    /\ last.resp[1].recent_count = 0

\* The last call is a search or range statistics call with two dates, on a
\* store whose statement runs, and no order lies in the range
EmptyRangeCall ==
    /\ last.name \in {"search_orders_by_date", "get_date_range_statistics"}
    /\ MissingKeys = {}
    /\ Strptime(last.args.start_date) = "ok"
    /\ Strptime(last.args.end_date) = "ok"
    /\ OrderStatementError(db, TRUE) = ""
    /\ RangeOfLastCall = <<>>

\* C18: no call ends in a division by zero: no ZeroDivisionError is raised;
\* a get_order_summary report for days = 0 shows the daily average 0; a
\* search or range statistics call on a range without orders returns the
\* not-found message; a range statistics report has at least one active
\* day to divide by.
C18_NoDivisionByZero ==
    /\ last.raised # "ZeroDivisionError"
    /\ (SummaryReport /\ last.resp[1].days.i <= 0) => last.resp[1].daily_avg = 0
    /\ EmptyRangeCall => Returned("no_orders_between")
    /\ (last.name = "get_date_range_statistics" /\ Returned("date_range_statistics")) =>
          last.resp[1].unique_days > 0

\* C18 witness: get_order_summary was called with days = 0 and returned its
\* report
C18_SummaryOverZeroDays ==
    /\ SummaryReport
    /\ last.args = [days |-> PyInt(0)]
    /\ last.resp[1].daily_avg = 0
    /\ last.raised = ""

\* The last call is get_product_details with an integer product_id that is
\* the identifier of no product of the store
UnknownProductRequested ==
    /\ last.name = "get_product_details"
    /\ "product_id" \in DOMAIN last.args
    /\ last.args.product_id.t = "int"
    /\ "product" \in db.tables
    /\ \A i \in 1..Len(db.product) : db.product[i].id # last.args.product_id.i

\* C19 as stated: get_product_details called with a product_id that is the
\* identifier of no product, 0 included, returns the not-found message for
\* that identifier, never a product record or the listing of all products.
C19_UnknownProductNotFound ==
    UnknownProductRequested =>
        /\ Returned("product_not_found")
        /\ last.resp[1].product_id = last.args.product_id

\* C19 witness: product_id 0, the identifier of no product, was answered
\* with the listing of all products
C19_ProductZeroListsAll ==
    /\ UnknownProductRequested
    /\ last.args.product_id = PyInt(0)
    /\ Returned("all_products")
    /\ Len(last.resp[1].products) = Len(db.product)

\* The last call is an ad-hoc query that passed the safety checks and that
\* the store ran
AcceptedQuery ==
    /\ AdhocCall
    /\ SafetyCheck(Strip(last.args.query.cs)).msg = "ok"
    /\ AdhocExecute(db, Strip(last.args.query.cs)).k = "rows"

\* The rows of the result of the last ad-hoc query
ResultRows == AdhocExecute(db, Strip(last.args.query.cs)).rows

\* The result's column names
ResultColumns == AdhocExecute(db, Strip(last.args.query.cs)).cols

\* The text shows the first rows of the result, in order, each as the list
\* of its values labelled with the column names
ShowsRows(text, cols, rows, n) ==
    /\ Len(text.rows) = n
    /\ \A i \in 1..n :
          /\ Len(text.rows[i]) = Len(cols)
          /\ \A j \in 1..Len(cols) : text.rows[i][j] = <<cols[j], rows[i][j]>>

\* C20: the report of an accepted ad-hoc query whose result has n >= 1 rows
\* gives the row count n, shows exactly min(n, 100) rows, each as the list
\* of its fields labelled with the result's column names, and carries the
\* truncation notice if and only if n > 100.
C20_ReportShowsAtMostMaxRows ==
    (AcceptedQuery /\ Len(ResultRows) >= 1) =>
        /\ Returned("custom_query_results")
        /\ last.resp[1].n_rows = Len(ResultRows)
        /\ ShowsRows(last.resp[1], ResultColumns, ResultRows,
                     IF Len(ResultRows) <= 100 THEN Len(ResultRows) ELSE 100)
        /\ last.resp[1].truncated <=> Len(ResultRows) > 100

\* C20 witness: SELECT name FROM product on a product table of more than
\* 100 rows returned a truncated report
C20_TruncatedReport ==
    /\ AcceptedQuery
    /\ Strip(last.args.query.cs) = Q_select_name
    /\ Len(ResultRows) > 100
    /\ Returned("custom_query_results")
    /\ last.resp[1].truncated
    /\ Len(last.resp[1].rows) = 100


\* The text a request in flight returns when it is the only one served, on
\* the store it arrived on, at clock t
AloneText(c, t) == handle_call_tool(c.name, c.args, c.store, t).resp

ProductReport ==
    /\ last.name = "get_product_details"
    /\ Returned("product_details")
    /\ \E i \in 1..Len(db.product) : db.product[i].id = last.args.product_id.i

\* The orders with a line item of product pid
OrdersReferencing(pid) ==
    {i \in 1..Len(db.order) :
        \E j \in 1..Len(db.order[i].items) : db.order[i].items[j].product_id = pid}

\* C22 as stated: the order count get_product_details reports for a product
\* of the store is the number of orders that have a line item with that
\* product's identifier; orders that only reference other products are not
\* counted.
C22_OrderCountIsReferencingOrders ==
    ProductReport =>
        last.resp[1].order_count = Cardinality(OrdersReferencing(last.args.product_id.i))

\* C22 witness: the lookup of product 1 reported more orders than reference
\* product 1, on a store with an order whose only line item is of product 10
C22_ProductTenCountedForProductOne ==
    /\ ProductReport
    /\ last.args.product_id = PyInt(1)
    /\ \E i \in 1..Len(db.order) :
            /\ i \notin OrdersReferencing(1)
            /\ \A j \in 1..Len(db.order[i].items) : db.order[i].items[j].product_id = 10
    /\ last.resp[1].order_count > Cardinality(OrdersReferencing(1))

\* The stripped, upper-cased text of the last ad-hoc query
QueryUpper == Upper(Strip(last.args.query.cs))

\* The SELECT-prefix check and the keyword check on the last ad-hoc query
PassedPrefixCheck == StartsWith(QueryUpper, KW_SELECT)
PassedKeywordCheck == \A kw \in MutatingKeywords : ~Contains(QueryUpper, kw)

\* C23: in execute_custom_query the checks come before the store: a call
\* answered with one of the two rejections has acquired no connection,
\* closed none and handed no statement to the store, and a call that
\* acquired a connection or handed a statement to the store is one whose
\* query passed both the SELECT-prefix check and the keyword check.
C23_FilterBeforeConnection ==
    AdhocCall =>
        /\ (Returned("only_select") \/ Returned("dangerous_keyword")) =>
                (last.opened = 0 /\ last.closed = 0 /\ last.stmts = 0)
        /\ (last.opened > 0 \/ last.stmts > 0) =>
                (PassedPrefixCheck /\ PassedKeywordCheck)
        /\ (~PassedPrefixCheck \/ ~PassedKeywordCheck) => last.opened = 0

\* C23 witness: a query that passed the SELECT-prefix check was rejected by
\* the keyword check, and no connection was acquired for it
C23_RejectedBySecondCheck ==
    /\ AdhocCall
    /\ PassedPrefixCheck
    /\ ~PassedKeywordCheck
    /\ Returned("dangerous_keyword")
    /\ last.opened = 0
    /\ last.stmts = 0

\* The name of the created_at column, upper-cased
CreatedAtUpper == <<"C","R","E","A","T","E","D","_","A","T">>

\* The keywords in the order DELETE, DROP, INSERT, UPDATE, ALTER, CREATE,
\* TRUNCATE, and the first of them the upper-cased text holds
KeywordOrder == <<"DELETE", "DROP", "INSERT", "UPDATE", "ALTER", "CREATE", "TRUNCATE">>
KeywordText(n) ==
    CASE n = "DELETE" -> KW_DELETE [] n = "DROP" -> KW_DROP [] n = "INSERT" -> KW_INSERT
      [] n = "UPDATE" -> KW_UPDATE [] n = "ALTER" -> KW_ALTER [] n = "CREATE" -> KW_CREATE
      [] n = "TRUNCATE" -> KW_TRUNCATE
FirstInOrder(cs) ==
    KeywordOrder[CHOOSE i \in 1..Len(KeywordOrder) :
                    /\ Contains(cs, KeywordText(KeywordOrder[i]))
                    /\ \A j \in 1..(i - 1) : ~Contains(cs, KeywordText(KeywordOrder[j]))]

\* C24: an ad-hoc query whose text names created_at, in any letter case, is
\* never executed: it is rejected without a connection and without a
\* statement handed to the store; when it begins with SELECT it is rejected
\* as holding a dangerous keyword, and the keyword named is the first of
\* DELETE, DROP, INSERT, UPDATE, ALTER, CREATE, TRUNCATE that its text holds
\* (CREATE, unless an earlier one is in the text as well).
C24_CreatedAtQueryRejected ==
    (AdhocCall /\ Contains(QueryUpper, CreatedAtUpper)) =>
        /\ Returned("only_select") \/ Returned("dangerous_keyword")
        /\ last.opened = 0
        /\ last.stmts = 0
        /\ PassedPrefixCheck =>
                /\ Returned("dangerous_keyword")
                /\ last.resp[1].keyword = FirstInOrder(QueryUpper)

\* C24 witness: a read of created_at alone, holding no other keyword, was
\* rejected as holding CREATE, on a store whose two tables have the column
C24_PureReadRejectedAsCreate ==
    /\ AdhocCall
    /\ PassedPrefixCheck
    /\ Contains(QueryUpper, CreatedAtUpper)
    /\ \A kw \in MutatingKeywords \ {KW_CREATE} : ~Contains(QueryUpper, kw)
    /\ Len(Tokens(QueryUpper)) = 4
    /\ Returned("dangerous_keyword")
    /\ last.resp[1].keyword = "CREATE"
    /\ last.stmts = 0
    /\ "created_at" \in DOMAIN db.product[1] \cap DOMAIN db.order[1]

=========================================================================
